---- MODULE Spec2Model ----
(***************************************************************************)
(* Model of the specification assembler of nestjs-smart-docs:              *)
(* OpenApiGenerator.generate and the helpers it calls.                     *)
(*                                                                         *)
(* Strings that the code inspects character by character (paths, prefixes, *)
(* versions, descriptions) are tuples of one-character strings, so that    *)
(* '/api' is <<"/","a","p","i">> and '' is <<>>.  An optional string field *)
(* that the code only tests for truthiness is <<>> both when it is absent  *)
(* and when it is ''.  Any other optional value is None or Some(v).        *)
(***************************************************************************)
EXTENDS Integers, Sequences, FiniteSets, TLC

VARIABLES controllers, options, tags, schemas, doc, pc,
          \* history: this.tags as the latest generate call found it
          tagsBefore,
          \* the scanner: the source files of its project and the results of
          \* scanControllers, applyCategoryMapping and groupByCategory
          project, scanned, mapped, grouped,
          \* the service: the files on disk, the scan() invocations, the
          \* three published fields, the clock and the last reader's answer
          disk, scans, openApiSpec, storedControllers, lastScanTime, now, response,
          \* history: the scan() invocation that wrote each published field
          writer,
          \* the route extractor: the declared return type of the handler it
          \* is working on and what extractResponseType answered
          returnType, extracted

generatorVars == <<controllers, options, tags, schemas, doc, pc, tagsBefore>>
scannerVars == <<project, scanned, mapped, grouped>>
serviceVars == <<disk, scans, openApiSpec, storedControllers, lastScanTime, now,
                 response, writer>>
extractorVars == <<returnType, extracted>>
vars == <<generatorVars, scannerVars, serviceVars, extractorVars>>

None == <<>>
Some(v) == <<v>>
EmptyMap == [x \in {} |-> x]

\* ------------------------------------------------------------------ bounds
MaxControllers == 2
MaxRoutes == 2
MaxLen == 2

MaxTagged == 3
MaxEntries == 2

MaxScans == 2
MaxWrites == 1

MaxParts == 3

MaxPathLen == 4

\* ------------------------------------------------------- string literals
s_api == <<"/","a","p","i">>
s_restapi == <<"/","r","e","s","t","/","a","p","i","/">>
s_apiv1 == <<"/","a","p","i","/","v","1">>
s_legacy == <<"/","l","e","g","a","c","y">>
s_g == <<"/","g","/">>
s_admin == <<"a","d","m","i","n">>
s_adminSl == <<"/","a","d","m","i","n","/">>
s_uid == <<"u","/",":","i","d">>
s_profile == <<"p","r","o","f","i","l","e">>
s_profileSl == <<"/","p","r","o","f","i","l","e">>
s_twoParams == <<":","u","I","d","/","r","/",":","r","I","d">>
s_v1 == <<"v","1">>
s_v2 == <<"v","2">>
s_v10 == <<"v","1","0">>
s_Admin == <<"A","d","m","i","n">>
s_User == <<"U","s","e","r">>
s_AdminAuth == s_Admin \o <<" ","-"," ","A","u","t","h">>
s_beta == <<"b","e","t","a">>
s_Users == <<"U","s","e","r","s">>
s_apiv1Dir == <<"/","a","p","i","/","v","1","/">>
s_srcDir == <<"/","s","r","c","/">>
s_controllerTs == <<".","c","o","n","t","r","o","l","l","e","r",".","t","s">>
s_dotTs == <<".","t","s">>
s_controllers == <<"c","o","n","t","r","o","l","l","e","r","s">>
s_dotController == <<".","c","o","n","t","r","o","l","l","e","r">>
s_Uncategorized == <<"U","n","c","a","t","e","g","o","r","i","z","e","d">>
s_dashSep == <<" ","-"," ">>
s_Admin_Auth == <<"A","d","m","i","n"," ","A","u","t","h">>
s_user == <<"u","s","e","r">>
s_adminPath == <<"s","r","c","/","a","p","i","/","v","1","/","a","d","m","i","n","/","a","d","m","i","n",".","c","o","n","t","r","o","l","l","e","r",".","t","s">>
s_userPath == <<"s","r","c","/","a","p","i","/","v","2","/","u","s","e","r","/","u","s","e","r",".","c","o","n","t","r","o","l","l","e","r",".","t","s">>
s_notGenerated == <<"O","p","e","n","A","P","I"," ","s","p","e","c"," ","n","o","t"," ","g","e","n","e","r","a","t","e","d","."," ","C","a","l","l"," ","i","n","i","t","i","a","l","i","z","e","(",")"," ","f","i","r","s","t",".">>
s_base == <<"h",":","/","/","x">>
s_custom == <<"h",":","/","/","c">>
s_Custom == <<"C","u","s","t","o","m">>
s_API_ == <<"A","P","I"," ">>
s_APIServer == <<"A","P","I"," ","S","e","r","v","e","r">>
s_BaseServer == <<"B","a","s","e"," ","S","e","r","v","e","r">>
s_CurrentServer == <<"C","u","r","r","e","n","t"," ","S","e","r","v","e","r"," ",
                     "(","e","d","i","t","a","b","l","e"," ","i","n"," ",
                     "d","r","o","p","d","o","w","n",")">>
s_relatedEndpoints == <<" ","r","e","l","a","t","e","d"," ",
                        "e","n","d","p","o","i","n","t","s">>

\* ------------------------------------------------------ character tables
LowerLetters == <<"a","b","c","d","e","f","g","h","i","j","k","l","m",
                  "n","o","p","q","r","s","t","u","v","w","x","y","z">>
UpperLetters == <<"A","B","C","D","E","F","G","H","I","J","K","L","M",
                  "N","O","P","Q","R","S","T","U","V","W","X","Y","Z">>
Digits == <<"0","1","2","3","4","5","6","7","8","9">>

Range(f) == {f[i] : i \in DOMAIN f}
IndexOf(seq, c) == CHOOSE i \in DOMAIN seq : seq[i] = c

\* \w of a JavaScript regular expression: [A-Za-z0-9_]
IsWordChar(c) == c \in Range(LowerLetters) \cup Range(UpperLetters) \cup Range(Digits) \cup {"_"}

\* String.prototype.toUpperCase, one character
UpperChar(c) == IF c \in Range(LowerLetters) THEN UpperLetters[IndexOf(LowerLetters, c)] ELSE c
\* String.prototype.toLowerCase, one character
LowerChar(c) == IF c \in Range(UpperLetters) THEN LowerLetters[IndexOf(UpperLetters, c)] ELSE c

toUpperCase(s) == [i \in DOMAIN s |-> UpperChar(s[i])]
toLowerCase(s) == [i \in DOMAIN s |-> LowerChar(s[i])]

\* The UTF-16 order of the characters the model uses.
CodeOrder == <<" ", "(", ")", "-", ".", "/">> \o Digits \o <<":">> \o UpperLetters
             \o <<"\\", "_">> \o LowerLetters \o <<"{", "}">>
CharCode(c) == IndexOf(CodeOrder, c)

\* a < b in the code-unit order that Array.prototype.sort() uses by default
RECURSIVE StrLess(_, _)
StrLess(a, b) ==
  IF b = <<>> THEN FALSE
  ELSE IF a = <<>> THEN TRUE
  ELSE IF Head(a) = Head(b) THEN StrLess(Tail(a), Tail(b))
  ELSE CharCode(Head(a)) < CharCode(Head(b))

\* ----------------------------------------------------------- combinePaths
RECURSIVE StripLeadingSlashes(_)
StripLeadingSlashes(s) ==
  IF s # <<>> /\ Head(s) = "/" THEN StripLeadingSlashes(Tail(s)) ELSE s

RECURSIVE StripTrailingSlashes(_)
StripTrailingSlashes(s) ==
  IF s # <<>> /\ s[Len(s)] = "/" THEN StripTrailingSlashes(SubSeq(s, 1, Len(s) - 1)) ELSE s

\* segment.replace(/^\/+|\/+$/g, '')
StripSlashes_leadingOnly(s) == StripLeadingSlashes(s)
StripSlashes(s) == StripTrailingSlashes(StripLeadingSlashes(s))

\* Array.prototype.filter(Boolean) on strings: the empty string is dropped
RECURSIVE FilterBoolean(_)
FilterBoolean(list) ==
  IF list = <<>> THEN <<>>
  ELSE IF Head(list) = <<>> THEN FilterBoolean(Tail(list))
  ELSE <<Head(list)>> \o FilterBoolean(Tail(list))

\* Array.prototype.join('/')
RECURSIVE JoinSlash(_)
JoinSlash(list) ==
  IF list = <<>> THEN <<>>
  ELSE IF Len(list) = 1 THEN Head(list)
  ELSE Head(list) \o <<"/">> \o JoinSlash(Tail(list))

combinePaths(segments) ==
  JoinSlash(FilterBoolean([i \in DOMAIN FilterBoolean(segments) |->
                              StripSlashes(FilterBoolean(segments)[i])]))

\* ---------------------------------------------- :param to {param} rewrite
\* the longest run of \w characters of s that starts at position i
RECURSIVE WordRunEnd(_, _)
WordRunEnd(s, i) ==
  IF i + 1 <= Len(s) /\ IsWordChar(s[i + 1]) THEN WordRunEnd(s, i + 1) ELSE i

\* fullPath.replace(/:(\w+)/g, '{$1}'), scanning from position i
RECURSIVE ReplaceFrom(_, _)
ReplaceFrom(s, i) ==
  IF i > Len(s) THEN <<>>
  ELSE IF s[i] = ":" /\ i + 1 <= Len(s) /\ IsWordChar(s[i + 1])
       THEN LET e == WordRunEnd(s, i + 1)
            IN  <<"{">> \o SubSeq(s, i + 1, e) \o <<"}">> \o ReplaceFrom(s, e + 1)
       ELSE <<s[i]>> \o ReplaceFrom(s, i + 1)

\* the same without the g flag: only the first match is rewritten
RECURSIVE ReplaceFirstFrom(_, _)
ReplaceFirstFrom(s, i) ==
  IF i > Len(s) THEN <<>>
  ELSE IF s[i] = ":" /\ i + 1 <= Len(s) /\ IsWordChar(s[i + 1])
       THEN LET e == WordRunEnd(s, i + 1)
            IN  <<"{">> \o SubSeq(s, i + 1, e) \o <<"}">> \o SubSeq(s, e + 1, Len(s))
       ELSE <<s[i]>> \o ReplaceFirstFrom(s, i + 1)
replaceParams_firstOnly(s) == ReplaceFirstFrom(s, 1)
replaceParams(s) == ReplaceFrom(s, 1)

\* ------------------------------------------------------------ versioning
\* options.versioning?.enabled
versioningEnabled(opts) == opts.versioning # None /\ opts.versioning[1].enabled
\* options.versioning.prefix || '/api'
versionPrefix(opts) ==
  IF opts.versioning[1].prefix # <<>> THEN opts.versioning[1].prefix ELSE s_api

\* the segments handed to combinePaths for one route
pathSegments_fallbackFirst(controller, route, opts) ==
  IF versioningEnabled(opts) /\ opts.versioning[1].fallback # <<>>
  THEN <<opts.versioning[1].fallback, controller.path, route.path>>
  ELSE IF versioningEnabled(opts) /\ controller.version # <<>>
  THEN <<versionPrefix(opts), controller.version, controller.path, route.path>>
  ELSE <<opts.globalPrefix, controller.path, route.path>>
pathSegments_fallbackUnderPrefix(controller, route, opts) ==
  IF versioningEnabled(opts) /\ controller.version # <<>>
  THEN <<versionPrefix(opts), controller.version, controller.path, route.path>>
  ELSE IF versioningEnabled(opts) /\ opts.versioning[1].fallback # <<>>
  THEN <<opts.globalPrefix, opts.versioning[1].fallback, controller.path, route.path>>
  ELSE <<opts.globalPrefix, controller.path, route.path>>
pathSegments_versionAlways(controller, route, opts) ==
  IF opts.versioning # None /\ controller.version # <<>>
  THEN <<versionPrefix(opts), controller.version, controller.path, route.path>>
  ELSE IF versioningEnabled(opts) /\ opts.versioning[1].fallback # <<>>
  THEN <<opts.versioning[1].fallback, controller.path, route.path>>
  ELSE <<opts.globalPrefix, controller.path, route.path>>
pathSegments(controller, route, opts) ==
  IF versioningEnabled(opts) /\ controller.version # <<>>
  THEN <<versionPrefix(opts), controller.version, controller.path, route.path>>
  ELSE IF versioningEnabled(opts) /\ opts.versioning[1].fallback # <<>>
  THEN <<opts.versioning[1].fallback, controller.path, route.path>>
  ELSE <<opts.globalPrefix, controller.path, route.path>>

\* the key of the route in the paths object
fullPath(controller, route, opts) ==
  replaceParams(combinePaths(pathSegments(controller, route, opts)))

\* ------------------------------------------------------ schema conversion
EmptySchema ==
  [type |-> None, format |-> None, items |-> None, enum |-> None,
   properties |-> None, required |-> None, description |-> None,
   minLength |-> None, maxLength |-> None, pattern |-> None,
   minimum |-> None, maximum |-> None, minItems |-> None, maxItems |-> None]

\* the constraints object of a validator that sets nothing
NoConstraints ==
  [type |-> None, format |-> None, minLength |-> None, maxLength |-> None,
   pattern |-> None, minimum |-> None, maximum |-> None, minItems |-> None,
   maxItems |-> None, enum |-> None, required |-> None]

\* later-applied-wins: a field the validator sets replaces the schema's
applyValidatorConstraints(schema, validator) ==
  IF validator.constraints = None THEN schema
  ELSE LET c == validator.constraints[1]
           pick(new, old) == IF new # None THEN new ELSE old
       IN  [schema EXCEPT !.type = pick(c.type, @), !.format = pick(c.format, @),
                          !.minLength = pick(c.minLength, @),
                          !.maxLength = pick(c.maxLength, @),
                          !.pattern = pick(c.pattern, @),
                          !.minimum = pick(c.minimum, @),
                          !.maximum = pick(c.maximum, @),
                          !.minItems = pick(c.minItems, @),
                          !.maxItems = pick(c.maxItems, @),
                          !.enum = pick(c.enum, @)]

RECURSIVE applyValidators(_, _)
applyValidators(schema, validators) ==
  IF validators = <<>> THEN schema
  ELSE applyValidators(applyValidatorConstraints(schema, Head(validators)), Tail(validators))

\* schema.properties[name] = value on an object that keeps insertion order
putProperty(props, name, value) ==
  IF \E i \in DOMAIN props : props[i][1] = name
  THEN [i \in DOMAIN props |-> IF props[i][1] = name THEN <<name, value>> ELSE props[i]]
  ELSE Append(props, <<name, value>>)

validatorsOf(prop) == IF prop.validators = None THEN <<>> ELSE prop.validators[1]

isRequiredByValidators(prop) ==
  \E i \in DOMAIN validatorsOf(prop) :
     LET v == validatorsOf(prop)[i]
     IN  v.name = "IsNotEmpty" \/ (v.constraints # None /\ v.constraints[1].required = Some(TRUE))

isOptionalByValidators(prop) ==
  \E i \in DOMAIN validatorsOf(prop) :
     LET v == validatorsOf(prop)[i]
     IN  v.name = "IsOptional" \/ (v.constraints # None /\ v.constraints[1].required = Some(FALSE))

RECURSIVE convertTypeToSchema(_)
RECURSIVE convertPropertyToSchema(_)
RECURSIVE convertTypeProperties(_, _, _)

\* the loop of convertTypeToSchema over typeMetadata.properties
convertTypeProperties(props, accProps, accRequired) ==
  IF props = <<>> THEN <<accProps, accRequired>>
  ELSE LET prop == Head(props)
       IN  convertTypeProperties(
             Tail(props),
             putProperty(accProps, prop.name, convertPropertyToSchema(prop)),
             IF isRequiredByValidators(prop) /\ ~isOptionalByValidators(prop)
             THEN Append(accRequired, prop.name) ELSE accRequired)

convertTypeToSchema(typeMetadata) ==
  IF typeMetadata = None THEN [EmptySchema EXCEPT !.type = Some("object")]
  ELSE LET tm == typeMetadata[1]
       IN  IF tm.isPrimitive
           THEN [EmptySchema EXCEPT !.type = Some(tm.type), !.format = tm.format]
           ELSE IF tm.isArray /\ tm.elementType # None
           THEN [EmptySchema EXCEPT !.type = Some("array"),
                                    !.items = Some(convertTypeToSchema(tm.elementType))]
           ELSE IF tm.isEnum /\ tm.enumValues # None
           THEN [EmptySchema EXCEPT !.type = Some("string"), !.enum = tm.enumValues]
           ELSE IF tm.properties # None
           THEN LET r == convertTypeProperties(tm.properties[1], <<>>, <<>>)
                IN  [EmptySchema EXCEPT !.type = Some("object"),
                                        !.properties = Some(r[1]),
                                        !.required = IF r[2] # <<>> THEN Some(r[2]) ELSE None]
           ELSE EmptySchema

convertPropertyToSchema(property) ==
  LET base == IF property.type # None THEN convertTypeToSchema(property.type) ELSE EmptySchema
      constrained == applyValidators(base, validatorsOf(property))
  IN  IF property.description # <<>>
      THEN [constrained EXCEPT !.description = Some(property.description)]
      ELSE constrained

\* the loop of convertDtoToSchema over dto.properties
RECURSIVE convertDtoProperties(_, _, _)
convertDtoProperties(props, accProps, accRequired) ==
  IF props = <<>> THEN <<accProps, accRequired>>
  ELSE LET prop == Head(props)
       IN  convertDtoProperties(
             Tail(props),
             putProperty(accProps, prop.name, convertPropertyToSchema(prop)),
             IF prop.required THEN Append(accRequired, prop.name) ELSE accRequired)

convertDtoToSchema(dto) ==
  LET r == convertDtoProperties(dto.properties, <<>>, <<>>)
  IN  [EmptySchema EXCEPT !.type = Some("object"),
                          !.properties = Some(r[1]),
                          !.required = IF r[2] # <<>> THEN Some(r[2]) ELSE None,
                          !.description = IF dto.description # <<>>
                                          THEN Some(dto.description) ELSE None]

\* the descriptor's required flag copied as it is
RECURSIVE createParametersFrom_descriptorFlag(_)
createParametersFrom_descriptorFlag(params) ==
  IF params = <<>> THEN <<>>
  ELSE LET param == Head(params)
       IN  (IF param.in \in {"path", "query"}
            THEN <<[name |-> param.name, in |-> param.in,
                    required |-> param.required,
                    schema |-> convertTypeToSchema(param.type),
                    description |-> param.description]>>
            ELSE <<>>) \o createParametersFrom_descriptorFlag(Tail(params))

\* --------------------------------------------------------- createOperation
RECURSIVE createParametersFrom(_)
createParametersFrom(params) ==
  IF params = <<>> THEN <<>>
  ELSE LET param == Head(params)
       IN  (IF param.in \in {"path", "query"}
            THEN <<[name |-> param.name, in |-> param.in,
                    required |-> (param.in = "path" \/ param.required),
                    schema |-> convertTypeToSchema(param.type),
                    description |-> param.description]>>
            ELSE <<>>) \o createParametersFrom(Tail(params))

createParameters(params) ==
  IF createParametersFrom(params) # <<>> THEN Some(createParametersFrom(params)) ELSE None

BearerRequirement == [bearerAuth |-> <<>>]

\* security: route.isPublic ? undefined : [{ bearerAuth: [] }]
operationSecurity_ignoresPublic(route) == Some(<<BearerRequirement>>)
operationSecurity(route) == IF route.isPublic THEN None ELSE Some(<<BearerRequirement>>)

\* the request body attached whatever the verb
createOperation_bodyForAnyVerb(route, controller) ==
  [summary |-> IF route.description # <<>> THEN route.description
               ELSE <<route.httpMethod, " ">> \o route.path,
   description |-> route.description,
   tags |-> IF controller.category # <<>> THEN Some(<<controller.category>>) ELSE None,
   operationId |-> <<controller.name, "_", route.name>>,
   parameters |-> createParameters(route.params),
   responses |->
     [r200 |-> [description |-> "Successful response",
                content |-> IF route.responseType # None
                            THEN Some(convertDtoToSchema(route.responseType[1])) ELSE None],
      r400 |-> [description |-> "Bad request"],
      r401 |-> [description |-> "Unauthorized"],
      r500 |-> [description |-> "Internal server error"]],
   security |-> operationSecurity(route),
   requestBody |-> IF route.requestBody # None
                   THEN Some([required |-> TRUE,
                              schema |-> convertDtoToSchema(route.requestBody[1])])
                   ELSE None]
createOperation(route, controller) ==
  [summary |-> IF route.description # <<>> THEN route.description
               ELSE <<route.httpMethod, " ">> \o route.path,
   description |-> route.description,
   tags |-> IF controller.category # <<>> THEN Some(<<controller.category>>) ELSE None,
   operationId |-> <<controller.name, "_", route.name>>,
   parameters |-> createParameters(route.params),
   responses |->
     [r200 |-> [description |-> "Successful response",
                content |-> IF route.responseType # None
                            THEN Some(convertDtoToSchema(route.responseType[1])) ELSE None],
      r400 |-> [description |-> "Bad request"],
      r401 |-> [description |-> "Unauthorized"],
      r500 |-> [description |-> "Internal server error"]],
   security |-> operationSecurity(route),
   requestBody |-> IF route.httpMethod \in {"POST", "PUT", "PATCH"} /\ route.requestBody # None
                   THEN Some([required |-> TRUE,
                              schema |-> convertDtoToSchema(route.requestBody[1])])
                   ELSE None]

\* ----------------------------------------------------------- generatePaths
HttpMethods == {"GET", "POST", "PUT", "PATCH", "DELETE", "OPTIONS", "HEAD"}

\* route.httpMethod.toLowerCase()
methodLower(m) ==
  CASE m = "GET" -> "get" [] m = "POST" -> "post" [] m = "PUT" -> "put"
    [] m = "PATCH" -> "patch" [] m = "DELETE" -> "delete"
    [] m = "OPTIONS" -> "options" [] m = "HEAD" -> "head" [] OTHER -> m

SwitchCases == {"get", "post", "put", "patch", "delete", "options", "head"}

\* paths[fullPath] = paths[fullPath] || {};  paths[fullPath][method] = operation
putOperation(paths, key, method, operation) ==
  LET item == IF key \in DOMAIN paths THEN paths[key] ELSE EmptyMap
      newItem == IF method \in SwitchCases
                 THEN [m \in DOMAIN item \cup {method} |->
                         IF m = method THEN operation ELSE item[m]]
                 ELSE item
  IN  [k \in DOMAIN paths \cup {key} |-> IF k = key THEN newItem ELSE paths[k]]

RECURSIVE routesLoop(_, _, _, _)
routesLoop(paths, controller, routes, opts) ==
  IF routes = <<>> THEN paths
  ELSE LET route == Head(routes)
       IN  routesLoop(putOperation(paths, fullPath(controller, route, opts),
                                   methodLower(route.httpMethod),
                                   createOperation(route, controller)),
                      controller, Tail(routes), opts)

RECURSIVE controllersLoop(_, _, _)
controllersLoop(paths, ctrls, opts) ==
  IF ctrls = <<>> THEN paths
  ELSE controllersLoop(routesLoop(paths, Head(ctrls), Head(ctrls).routes, opts),
                       Tail(ctrls), opts)

generatePaths(ctrls, opts) == controllersLoop(EmptyMap, ctrls, opts)

\* ------------------------------------------------------------ generateTags
\* this.tags after the loop over the controllers, in insertion order
RECURSIVE tagsLoop(_, _)
tagsLoop(acc, ctrls) ==
  IF ctrls = <<>> THEN acc
  ELSE LET controller == Head(ctrls)
       IN  IF controller.category # <<>>
              /\ ~ \E i \in DOMAIN acc : acc[i].name = controller.category
           THEN tagsLoop(Append(acc,
                           [name |-> controller.category,
                            description |-> IF controller.description # <<>>
                                            THEN controller.description
                                            ELSE controller.category \o s_relatedEndpoints]),
                         Tail(ctrls))
           ELSE tagsLoop(acc, Tail(ctrls))

generateTags(ctrls) == tagsLoop(<<>>, ctrls)

\* this.tags.clear() at the start of generate
clearTags_keepsEntries(tagMap) == tagMap

clearTags(tagMap) == <<>>

\* this.tags.set(name, tag) for each new tag in turn: a present key keeps its
\* place and takes the new value, a new key goes to the end
RECURSIVE setTags(_, _)
setTags(tagMap, newTags) ==
  IF newTags = <<>> THEN tagMap
  ELSE LET tag == Head(newTags)
           updated == IF \E i \in DOMAIN tagMap : tagMap[i].name = tag.name
                      THEN [i \in DOMAIN tagMap |->
                              IF tagMap[i].name = tag.name THEN tag ELSE tagMap[i]]
                      ELSE Append(tagMap, tag)
       IN  setTags(updated, Tail(newTags))

\* a.localeCompare(b) < 0: letters compare without case first, and on a tie
\* the lower-case letter comes first
localeLess(a, b) ==
  IF toLowerCase(a) # toLowerCase(b)
  THEN StrLess(toLowerCase(a), toLowerCase(b))
  ELSE StrLess(b, a)

\* Array.from(this.tags.values()).sort((a, b) => a.name.localeCompare(b.name)),
\* as a stable insertion sort
RECURSIVE insertTag(_, _)
insertTag(sorted, x) ==
  IF sorted = <<>> THEN <<x>>
  ELSE IF localeLess(x.name, Head(sorted).name) THEN <<x>> \o sorted
  ELSE <<Head(sorted)>> \o insertTag(Tail(sorted), x)

\* the tags left in the order of their first controller
sortTags_insertionOrder(list) == list
RECURSIVE sortTags(_)
sortTags(list) ==
  IF list = <<>> THEN <<>>
  ELSE insertTag(sortTags(SubSeq(list, 1, Len(list) - 1)), list[Len(list)])

\* --------------------------------------------------- generateDefaultServers
\* the Set of the controllers' versions, in insertion order
RECURSIVE versionsOf(_, _)
versionsOf(acc, ctrls) ==
  IF ctrls = <<>> THEN acc
  ELSE IF Head(ctrls).version # <<>> /\ ~ \E i \in DOMAIN acc : acc[i] = Head(ctrls).version
       THEN versionsOf(Append(acc, Head(ctrls).version), Tail(ctrls))
       ELSE versionsOf(acc, Tail(ctrls))

sortVersions_insertionOrder(list) == list
\* Array.from(versions).sort(): the default order, by code unit
RECURSIVE insertVersion(_, _)
insertVersion(sorted, x) ==
  IF sorted = <<>> THEN <<x>>
  ELSE IF StrLess(x, Head(sorted)) THEN <<x>> \o sorted
  ELSE <<Head(sorted)>> \o insertVersion(Tail(sorted), x)

RECURSIVE sortVersions(_)
sortVersions(list) ==
  IF list = <<>> THEN <<>>
  ELSE insertVersion(sortVersions(SubSeq(list, 1, Len(list) - 1)), list[Len(list)])

versionServers(opts, ctrls) ==
  LET sorted == sortVersions(versionsOf(<<>>, ctrls))
  IN  [i \in DOMAIN sorted |->
         [url |-> versionPrefix(opts) \o <<"/">> \o sorted[i],
          description |-> s_API_ \o toUpperCase(sorted[i])]]

\* baseServerURL consulted before the fallback and the globalPrefix
generateDefaultServers_baseFirst(opts, ctrls) ==
  IF versioningEnabled(opts) /\ versionsOf(<<>>, ctrls) # <<>>
  THEN versionServers(opts, ctrls)
  ELSE IF opts.baseServerURL # <<>>
  THEN <<[url |-> opts.baseServerURL, description |-> s_BaseServer]>>
  ELSE IF versioningEnabled(opts) /\ opts.versioning[1].fallback # <<>>
  THEN <<[url |-> opts.versioning[1].fallback, description |-> s_APIServer]>>
  ELSE IF ~versioningEnabled(opts) /\ opts.globalPrefix # <<>>
  THEN <<[url |-> opts.globalPrefix, description |-> s_APIServer]>>
  ELSE <<[url |-> <<"/">>, description |-> s_CurrentServer]>>
generateDefaultServers(opts, ctrls) ==
  LET servers ==
        IF versioningEnabled(opts)
        THEN IF versionsOf(<<>>, ctrls) # <<>>
             THEN versionServers(opts, ctrls)
             ELSE IF opts.versioning[1].fallback # <<>>
             THEN <<[url |-> opts.versioning[1].fallback, description |-> s_APIServer]>>
             ELSE <<>>
        ELSE IF opts.globalPrefix # <<>>
        THEN <<[url |-> opts.globalPrefix, description |-> s_APIServer]>>
        ELSE <<>>
  IN  IF servers = <<>>
      THEN <<[url |-> IF opts.baseServerURL # <<>> THEN opts.baseServerURL ELSE <<"/">>,
              description |-> IF opts.baseServerURL # <<>>
                              THEN s_BaseServer ELSE s_CurrentServer]>>
      ELSE servers

\* ----------------------------------------------------------------- generate
BearerScheme ==
  [type |-> "http", scheme |-> "bearer", bearerFormat |-> "JWT",
   description |-> "Enter your JWT token in the format: Bearer {token}"]

\* servers: options.servers || this.generateDefaultServers(options, controllers)
specServers_emptyIsAbsent(opts, ctrls) ==
  IF opts.servers # None /\ opts.servers[1] # <<>> THEN opts.servers[1]
  ELSE generateDefaultServers(opts, ctrls)
specServers(opts, ctrls) ==
  IF opts.servers # None THEN opts.servers[1] ELSE generateDefaultServers(opts, ctrls)

\* securitySchemes: options.includeSecurity !== false ? { bearerAuth } : undefined
securitySchemes_onlyWhenTrue(opts) ==
  IF opts.includeSecurity = Some(TRUE) THEN Some([bearerAuth |-> BearerScheme]) ELSE None
securitySchemes(opts) ==
  IF opts.includeSecurity # Some(FALSE) THEN Some([bearerAuth |-> BearerScheme]) ELSE None

\* the document generate returns; tagMap and schemaMap are this.tags and
\* this.schemas as generateTags and generatePaths left them
buildSpec(ctrls, opts, tagMap, schemaMap) ==
  [openapi |-> "3.0.0",
   info |-> [title |-> opts.title,
             version |-> opts.version,
             description |-> IF opts.description # "" THEN opts.description
                             ELSE "Auto-generated API documentation",
             contact |-> opts.contact],
   servers |-> specServers(opts, ctrls),
   tags |-> sortTags(tagMap),
   paths |-> generatePaths(ctrls, opts),
   components |->
     [schemas |-> schemaMap,
      securitySchemes |-> securitySchemes(opts)]]

\* ------------------------------------------- ControllerScanner: file paths
\* s.indexOf(sub, from): the first position at or after from where sub
\* occurs in s, 0 when there is none
indexOf(s, sub, from) ==
  LET hits == {i \in from..(Len(s) - Len(sub) + 1) : SubSeq(s, i, i + Len(sub) - 1) = sub}
  IN  IF hits = {} THEN 0 ELSE CHOOSE i \in hits : \A j \in hits : i <= j

includes(s, sub) == indexOf(s, sub, 1) # 0

endsWith(s, suffix) ==
  Len(s) >= Len(suffix) /\ SubSeq(s, Len(s) - Len(suffix) + 1, Len(s)) = suffix

\* s.split(sep) for a non-empty separator: the pieces between the
\* occurrences of sep, empty pieces included
RECURSIVE split(_, _)
split(s, sep) ==
  LET i == indexOf(s, sep, 1)
  IN  IF i = 0 THEN <<s>>
      ELSE <<SubSeq(s, 1, i - 1)>> \o split(SubSeq(s, i + Len(sep), Len(s)), sep)

\* Array.prototype.join(sep)
RECURSIVE join(_, _)
join(list, sep) ==
  IF list = <<>> THEN <<>>
  ELSE IF Len(list) = 1 THEN Head(list)
  ELSE Head(list) \o sep \o join(Tail(list), sep)

\* s.replace(/<suffix>$/, '')
stripSuffix(s, suffix) ==
  IF endsWith(s, suffix) THEN SubSeq(s, 1, Len(s) - Len(suffix)) ELSE s

\* filePath.replace(/\\/g, '/')
normalizeSeparators(filePath) ==
  [i \in DOMAIN filePath |-> IF filePath[i] = "\\" THEN "/" ELSE filePath[i]]

\* the part of the path after '/api/v1/' or else after '/src/'
relevantPath(normalizedPath) ==
  IF includes(normalizedPath, s_apiv1Dir) THEN split(normalizedPath, s_apiv1Dir)[2]
  ELSE IF includes(normalizedPath, s_srcDir) THEN split(normalizedPath, s_srcDir)[2]
  ELSE normalizedPath

\* the segments kept by the filter of detectCategoryFromPath
keptPart(part) ==
  part # <<>> /\ part # s_controllers /\ ~endsWith(part, s_dotController)

pathParts(normalizedPath) ==
  SelectSeq(split(stripSuffix(stripSuffix(relevantPath(normalizedPath), s_controllerTs),
                              s_dotTs),
                  <<"/">>),
            keptPart)

\* word.charAt(0).toUpperCase() + word.slice(1)
capitalize(word) ==
  IF word = <<>> THEN <<>> ELSE <<UpperChar(word[1])>> \o Tail(word)

humanizeCategoryName(segment) ==
  LET words == split(segment, <<"-">>)
  IN  join([i \in DOMAIN words |-> capitalize(words[i])], <<" ">>)

\* toLowerCase().replace(/[\s-]/g, '')
isSpaceOrHyphen(c) == c \in {" ", "-"}
notSpaceOrHyphen(c) == ~isSpaceOrHyphen(c)
normalizeCategory(s) == SelectSeq(toLowerCase(s), notSpaceOrHyphen)

RECURSIVE deduplicateFrom(_, _, _)
deduplicateFrom(parts, i, result) ==
  IF i > Len(parts) THEN result
  ELSE deduplicateFrom(parts, i + 1,
                       IF normalizeCategory(parts[i]) # normalizeCategory(parts[i - 1])
                       THEN Append(result, parts[i])
                       ELSE result)

\* consecutive parts dropped only when they are the same string
deduplicateCategoryParts_exact(parts) ==
  LET differs(i) == i = 1 \/ parts[i] # parts[i - 1]
      kept == {i \in DOMAIN parts : differs(i)}
      nth(n) == CHOOSE i \in kept : Cardinality({j \in kept : j <= i}) = n
  IN  [n \in 1..Cardinality(kept) |-> parts[nth(n)]]
deduplicateCategoryParts(parts) ==
  IF Len(parts) <= 1 THEN parts ELSE deduplicateFrom(parts, 2, <<parts[1]>>)

detectCategoryFromPath(filePath) ==
  LET parts == pathParts(normalizeSeparators(filePath))
      humanizedParts == [i \in DOMAIN parts |-> humanizeCategoryName(parts[i])]
      deduplicated == deduplicateCategoryParts(humanizedParts)
  IN  IF parts = <<>> THEN s_Uncategorized
      ELSE IF Len(deduplicated) = 1 THEN deduplicated[1]
      ELSE join(deduplicated, s_dashSep)

\* the longest run of digits of s that starts at position i ends at the
\* result; i - 1 when s has no digit at i
RECURSIVE digitRunEnd(_, _)
digitRunEnd(s, i) ==
  IF i <= Len(s) /\ s[i] \in Range(Digits) THEN digitRunEnd(s, i + 1) ELSE i - 1

\* normalizedPath.match(/\/(v\d+)\//): the leftmost match, scanning from i
RECURSIVE versionMatchFrom(_, _)
versionMatchFrom(s, i) ==
  IF i > Len(s) THEN <<>>
  ELSE IF /\ s[i] = "/" /\ i + 1 <= Len(s) /\ s[i + 1] = "v"
          /\ digitRunEnd(s, i + 2) >= i + 2
          /\ digitRunEnd(s, i + 2) + 1 <= Len(s)
          /\ s[digitRunEnd(s, i + 2) + 1] = "/"
       THEN SubSeq(s, i + 1, digitRunEnd(s, i + 2))
       ELSE versionMatchFrom(s, i + 1)

\* the version looked for with '/' as the only separator
detectVersionFromPath_slashOnly(filePath) == versionMatchFrom(filePath, 1)

\* the captured group, or <<>> for undefined
detectVersionFromPath(filePath) == versionMatchFrom(normalizeSeparators(filePath), 1)

\* ------------------------------------------ ControllerScanner: controllers
\* a source file of the project with its controller class; moduleCategory is
\* what the module scanner answers for the class name, <<>> when it finds no
\* module; throwsAt is the step of buildControllerMetadata at which
\* extracting the class throws, "" when none does
SourceFile(filePath, className, moduleCategory, routes) ==
  [filePath |-> filePath, className |-> className, path |-> s_admin,
   moduleCategory |-> moduleCategory, description |-> <<>>, routes |-> routes,
   throwsAt |-> ""]

\* the steps inside the try block of buildControllerMetadata
ExtractionSteps == {"path", "category", "version", "guards", "routes"}

\* the first source file of the project that declares a class of that name
firstFileWithClass(controllerName, sourceFiles) ==
  LET hits == {i \in DOMAIN sourceFiles : sourceFiles[i].className = controllerName}
  IN  IF hits = {} THEN None
      ELSE Some(sourceFiles[CHOOSE i \in hits : \A j \in hits : i <= j])

detectCategoryFromModule(file, sourceFiles) ==
  IF file.moduleCategory # <<>> THEN file.moduleCategory
  ELSE IF firstFileWithClass(file.className, sourceFiles) # None
  THEN detectCategoryFromPath(firstFileWithClass(file.className, sourceFiles)[1].filePath)
  ELSE s_Uncategorized

\* the metadata, or null when a step throws and the catch block answers
buildControllerMetadata(file, sourceFiles) ==
  IF file.throwsAt \in ExtractionSteps THEN None
  ELSE Some([name |-> file.className, path |-> file.path, filePath |-> file.filePath,
             category |-> detectCategoryFromModule(file, sourceFiles),
             version |-> detectVersionFromPath(file.filePath),
             description |-> file.description, routes |-> file.routes])

\* the controllers of one file: its class when the metadata is not null
extractControllersFromFile(file, sourceFiles) ==
  LET metadata == buildControllerMetadata(file, sourceFiles)
  IN  IF metadata # None THEN <<metadata[1]>> ELSE <<>>

RECURSIVE scanFiles(_, _)
scanFiles(files, sourceFiles) ==
  IF files = <<>> THEN <<>>
  ELSE extractControllersFromFile(Head(files), sourceFiles)
         \o scanFiles(Tail(files), sourceFiles)

\* the scan given up at the first class whose extraction throws
RECURSIVE scanControllers_stopsAtFailure(_)
scanControllers_stopsAtFailure(sourceFiles) ==
  IF sourceFiles = <<>> \/ Head(sourceFiles).throwsAt \in ExtractionSteps THEN <<>>
  ELSE <<[name |-> Head(sourceFiles).className, path |-> Head(sourceFiles).path,
          filePath |-> Head(sourceFiles).filePath,
          category |-> Head(sourceFiles).moduleCategory,
          version |-> detectVersionFromPath(Head(sourceFiles).filePath),
          description |-> Head(sourceFiles).description,
          routes |-> Head(sourceFiles).routes]>>
         \o scanControllers_stopsAtFailure(Tail(sourceFiles))
\* ControllerScanner.scanControllers over the source files of the project
scanControllers(sourceFiles) == scanFiles(sourceFiles, sourceFiles)

\* -------------------------------------------------------- CategoryGenerator
\* mapping[category]: the value stored under that key, <<>> for undefined
lookup(mapping, key) ==
  IF \E i \in DOMAIN mapping : mapping[i].key = key
  THEN mapping[CHOOSE i \in DOMAIN mapping : mapping[i].key = key].value
  ELSE <<>>

startsWith(s, prefix) == Len(s) >= Len(prefix) /\ SubSeq(s, 1, Len(prefix)) = prefix

\* toLowerCase().replace(/[\s-]+/g, '')
normalizeKey(s) == SelectSeq(toLowerCase(s), notSpaceOrHyphen)

\* the loop over Object.entries(mapping), from entry i on
RECURSIVE entriesLoop(_, _, _)
entriesLoop(normalizedCategory, mapping, i) ==
  IF i > Len(mapping) THEN <<>>
  ELSE IF normalizedCategory = normalizeKey(mapping[i].key) THEN mapping[i].value
  ELSE IF startsWith(normalizedCategory, normalizeKey(mapping[i].key)) THEN mapping[i].value
  ELSE entriesLoop(normalizedCategory, mapping, i + 1)

findMappedCategory(category, mapping) ==
  IF lookup(mapping, category) # <<>> THEN lookup(mapping, category)
  ELSE entriesLoop(normalizeKey(category), mapping, 1)

\* categoryMapping is None when the option is absent
applyCategoryMapping(ctrls, categoryMapping) ==
  IF categoryMapping = None THEN ctrls
  ELSE [i \in DOMAIN ctrls |->
          [ctrls[i] EXCEPT !.category =
             IF findMappedCategory(ctrls[i].category, categoryMapping[1]) # <<>>
             THEN findMappedCategory(ctrls[i].category, categoryMapping[1])
             ELSE ctrls[i].category]]

\* the Set of the controllers' categories, in insertion order
RECURSIVE categoriesOf(_, _)
categoriesOf(acc, ctrls) ==
  IF ctrls = <<>> THEN acc
  ELSE IF Head(ctrls).category # <<>> /\ ~ \E i \in DOMAIN acc : acc[i] = Head(ctrls).category
       THEN categoriesOf(Append(acc, Head(ctrls).category), Tail(ctrls))
       ELSE categoriesOf(acc, Tail(ctrls))

\* Array.from(categories).sort(): the default order, by code unit
getCategories(ctrls) == sortVersions(categoriesOf(<<>>, ctrls))

\* the loop of groupByCategory; grouped maps a category to its controllers
RECURSIVE groupLoop(_, _)
groupLoop(acc, ctrls) ==
  IF ctrls = <<>> THEN acc
  ELSE LET controller == Head(ctrls)
           category == IF controller.category # <<>> THEN controller.category
                       ELSE s_Uncategorized
       IN  groupLoop(IF category \in DOMAIN acc
                     THEN [acc EXCEPT ![category] = Append(@, controller)]
                     ELSE [k \in DOMAIN acc \cup {category} |->
                             IF k = category THEN <<controller>> ELSE acc[k]],
                     Tail(ctrls))

\* grouping by the raw category, without the 'Uncategorized' default
groupByCategory_rawKey(ctrls) ==
  [k \in {ctrls[i].category : i \in DOMAIN ctrls} |->
     LET sameKey(c) == c.category = k IN SelectSeq(ctrls, sameKey)]
groupByCategory(ctrls) == groupLoop(EmptyMap, ctrls)

\* ------------------------------------------------------------------ inputs
SeqsUpTo(S, n) == UNION {[1..k -> S] : k \in 0..n}

Route(name, method, path, isPublic) ==
  [name |-> name, httpMethod |-> method, path |-> path, description |-> <<>>,
   params |-> <<>>, requestBody |-> None, responseType |-> None, isPublic |-> isPublic]

Ctl(name, path, category, version, routes) ==
  [name |-> name, path |-> path, category |-> category, version |-> version,
   description |-> <<>>, routes |-> routes]

Opts(globalPrefix, versioning, servers, includeSecurity, baseServerURL) ==
  [title |-> "Test API", version |-> "1.0", description |-> "", contact |-> None,
   globalPrefix |-> globalPrefix, versioning |-> versioning, servers |-> servers,
   includeSecurity |-> includeSecurity, baseServerURL |-> baseServerURL,
   categoryMapping |-> None]

Versioning(enabled, prefix, fallback) ==
  Some([enabled |-> enabled, prefix |-> prefix, fallback |-> fallback])

VersioningChoices ==
  {None} \cup {Versioning(e, p, f) : e \in BOOLEAN, p \in {<<>>, s_api, s_restapi},
                                     f \in {<<>>, s_legacy, s_apiv1}}

GetProfile == Route("getProfile", "GET", s_profile, FALSE)

\* one controller with one route: the three path rules on literal paths
PathInputs ==
  \E cp \in {s_admin, s_adminSl, s_uid}, rp \in {s_profile, s_profileSl, s_twoParams, <<>>},
     v \in {<<>>, s_v1, s_v2}, g \in {<<>>, s_apiv1, s_g}, vc \in VersioningChoices :
     /\ controllers = <<Ctl("AdminController", cp, s_Admin, v,
                            <<Route("getProfile", "GET", rp, FALSE)>>)>>
     /\ options = Opts(g, vc, None, None, <<>>)

\* controllers that differ in their version only: the server list
ServerInputs ==
  \E vs \in SeqsUpTo({<<>>, s_v1, s_v2, s_v10}, MaxControllers), g \in {<<>>, s_apiv1},
     vc \in {None} \cup {Versioning(e, p, f) : e \in BOOLEAN, p \in {<<>>, s_restapi},
                                              f \in {<<>>, s_legacy}},
     sv \in {None, Some(<<>>), Some(<<[url |-> s_custom, description |-> s_Custom]>>)},
     b \in {<<>>, s_base} :
     /\ controllers = [i \in DOMAIN vs |->
                         Ctl("AdminController", s_admin, s_Admin, vs[i], <<GetProfile>>)]
     /\ options = Opts(g, vc, sv, None, b)

\* one controller whose routes differ in verb and in the public flag
SecurityInputs ==
  \E rs \in SeqsUpTo(HttpMethods \X BOOLEAN, MaxRoutes),
     sec \in {None, Some(TRUE), Some(FALSE)} :
     /\ controllers = <<Ctl("AdminController", s_admin, s_Admin, <<>>,
                            [i \in DOMAIN rs |->
                               Route("handler", rs[i][1], s_profile, rs[i][2])])>>
     /\ options = Opts(<<>>, None, None, sec, <<>>)

\* controllers that differ in category and description only
TagInputs ==
  \E cs \in SeqsUpTo({<<>>, s_Admin, s_AdminAuth, s_beta, s_User} \X {<<>>, s_Users},
                     MaxTagged) :
     /\ controllers = [i \in DOMAIN cs |->
                         [Ctl("AdminController", s_admin, cs[i][1], <<>>, <<GetProfile>>)
                            EXCEPT !.description = cs[i][2]]]
     /\ options = Opts(<<>>, None, None, None, <<>>)
\* every short string over a small alphabet as prefix, controller and route path
Alphabet == {"a", "/", ":"}
CharInputs ==
  \E cp \in SeqsUpTo(Alphabet, MaxLen), rp \in SeqsUpTo(Alphabet, MaxLen),
     g \in SeqsUpTo(Alphabet, MaxLen) :
     /\ controllers = <<Ctl("AdminController", cp, s_Admin, <<>>,
                            <<Route("getProfile", "GET", rp, FALSE)>>)>>
     /\ options = Opts(g, None, None, None, <<>>)

\* ------------------------------------------------------------ state machine
\* the scanner before scanControllers
ScannerInit ==
  /\ scanned = <<>>
  /\ mapped = <<>>
  /\ grouped = EmptyMap

\* AutoDocsService after construction, no scan() invoked yet
ServiceInit ==
  /\ scans = <<>>
  /\ openApiSpec = None
  /\ storedControllers = <<>>
  /\ lastScanTime = None
  /\ now = 0
  /\ response = None
  /\ writer = [openApiSpec |-> 0, controllers |-> 0, lastScanTime |-> 0]

\* the route extractor at rest
ExtractorInit ==
  /\ returnType = None
  /\ extracted = None

\* OpenApiGenerator after construction
GeneratorInit ==
  /\ tags = <<>>
  /\ tagsBefore = <<>>
  /\ schemas = EmptyMap
  /\ doc = None
  /\ pc = "ready"

Init ==
  /\ PathInputs \/ ServerInputs \/ SecurityInputs \/ CharInputs \/ TagInputs
  /\ GeneratorInit
  /\ project = <<>> /\ disk = <<>>
  /\ ScannerInit
  /\ ServiceInit
  /\ ExtractorInit

\* OpenApiGenerator.generate(controllers, options)
generate ==
  /\ pc = "ready"
  /\ tagsBefore' = tags
  /\ tags' = setTags(clearTags(tags), generateTags(controllers))
  /\ schemas' = EmptyMap
  /\ doc' = Some(buildSpec(controllers, options, tags', schemas'))
  /\ pc' = "done"
  /\ UNCHANGED <<extractorVars, controllers, options, scannerVars, serviceVars>>

Next == generate

Spec == Init /\ [][Next]_vars

\* ======================================================================
\* The scanning pipeline: scanControllers, applyCategoryMapping and
\* groupByCategory applied one after the other
\* ======================================================================
\* an entry of options.categoryMapping; each key has its own display name
Entry(key) == [key |-> key, value |-> <<"M", ":">> \o key]

MappingKeys == {s_AdminAuth, s_Admin_Auth, s_admin, s_user}

\* the mappings with distinct keys, in every key order
Mappings ==
  {m \in SeqsUpTo({Entry(k) : k \in MappingKeys}, MaxEntries) :
     \A i \in DOMAIN m : \A j \in DOMAIN m : i # j => m[i].key # m[j].key}

\* controllers whose category comes from their module, and a categoryMapping
CategoryInputs ==
  \E cs \in SeqsUpTo({s_AdminAuth, s_Admin_Auth, s_Admin, s_User}, MaxControllers),
     m \in {None} \cup {Some(x) : x \in Mappings} :
     /\ project = [i \in DOMAIN cs |->
                     SourceFile(s_adminPath, "AdminController", cs[i], <<GetProfile>>)]
     /\ options = [Opts(<<>>, None, None, None, <<>>) EXCEPT !.categoryMapping = m]
     /\ mapped = <<>>
     /\ pc = "ready"

\* controllers handed to groupByCategory directly, some without a category
ControllerNames == <<"AdminController", "UserController", "AuthController", "MailController">>

GroupInputs ==
  \E cs \in SeqsUpTo({<<>>, s_Admin, s_User, s_Uncategorized}, MaxTagged) :
     /\ project = <<>>
     /\ options = Opts(<<>>, None, None, None, <<>>)
     /\ mapped = [i \in DOMAIN cs |->
                    Ctl(ControllerNames[i], s_admin, cs[i], <<>>, <<GetProfile>>)]
     /\ pc = "mapped"
\* file paths of the documentation and variations of them: claimed is the
\* category built from the directory segments only, actual the category
\* built from the directory segments and the file stem
PathCases ==
  <<[path |-> <<"s","r","c","/","a","p","i","/","v","1","/","a","d","m","i","n","/","a","d","m","i","n",".","c","o","n","t","r","o","l","l","e","r",".","t","s">>,
     claimed |-> <<"A","d","m","i","n">>, actual |-> <<"A","d","m","i","n">>],
    [path |-> <<"s","r","c","/","a","p","i","/","v","1","/","a","d","m","i","n","/","a","u","t","h","/","a","u","t","h",".","c","o","n","t","r","o","l","l","e","r",".","t","s">>,
     claimed |-> <<"A","d","m","i","n"," ","-"," ","A","u","t","h">>, actual |-> <<"A","d","m","i","n"," ","-"," ","A","u","t","h">>],
    [path |-> <<"s","r","c","/","a","p","i","/","v","1","/","m","e","s","s","a","g","i","n","g","/","m","e","s","s","a","g","e","s",".","c","o","n","t","r","o","l","l","e","r",".","t","s">>,
     claimed |-> <<"M","e","s","s","a","g","i","n","g">>, actual |-> <<"M","e","s","s","a","g","i","n","g"," ","-"," ","M","e","s","s","a","g","e","s">>],
    [path |-> <<"s","r","c","/","a","p","i","/","v","1","/","o","b","j","e","c","t","/","f","i","e","l","d","/","f","i","e","l","d",".","c","o","n","t","r","o","l","l","e","r",".","t","s">>,
     claimed |-> <<"O","b","j","e","c","t"," ","-"," ","F","i","e","l","d">>, actual |-> <<"O","b","j","e","c","t"," ","-"," ","F","i","e","l","d">>],
    [path |-> <<"s","r","c","/","a","p","i","/","v","1","/","m","e","s","s","a","g","i","n","g","/","c","o","n","t","r","o","l","l","e","r","s","/","m","e","s","s","a","g","e","s",".","c","o","n","t","r","o","l","l","e","r",".","t","s">>,
     claimed |-> <<"M","e","s","s","a","g","i","n","g">>, actual |-> <<"M","e","s","s","a","g","i","n","g"," ","-"," ","M","e","s","s","a","g","e","s">>],
    [path |-> <<"s","r","c","/","a","p","i","/","v","1","/","a","p","p",".","c","o","n","t","r","o","l","l","e","r",".","t","s">>,
     claimed |-> <<"U","n","c","a","t","e","g","o","r","i","z","e","d">>, actual |-> <<"A","p","p">>],
    [path |-> <<"/","a","p","p","/","s","r","c","/","u","s","e","r","s","/","u","s","e","r","s",".","c","o","n","t","r","o","l","l","e","r",".","t","s">>,
     claimed |-> <<"U","s","e","r","s">>, actual |-> <<"U","s","e","r","s">>],
    [path |-> <<"C",":","\\","a","p","p","\\","s","r","c","\\","a","p","i","\\","v","1","\\","a","d","m","i","n","-","a","u","t","h","\\","l","o","g","i","n",".","c","o","n","t","r","o","l","l","e","r",".","t","s">>,
     claimed |-> <<"A","d","m","i","n"," ","A","u","t","h">>, actual |-> <<"A","d","m","i","n"," ","A","u","t","h"," ","-"," ","L","o","g","i","n">>],
    [path |-> <<"/","a","p","p","/","s","r","c","/","c","o","n","t","r","o","l","l","e","r","s",".","t","s">>,
     claimed |-> <<"U","n","c","a","t","e","g","o","r","i","z","e","d">>, actual |-> <<"U","n","c","a","t","e","g","o","r","i","z","e","d">>]>>

\* controllers without a module, in files of the table
DocumentedPathInputs ==
  \E ps \in SeqsUpTo(DOMAIN PathCases, MaxControllers) :
     /\ project = [i \in DOMAIN ps |->
                     SourceFile(PathCases[ps[i]].path, ControllerNames[i], <<>>,
                                <<GetProfile>>)]
     /\ options = Opts(<<>>, None, None, None, <<>>)
     /\ mapped = <<>>
     /\ pc = "ready"
\* directory and file names that repeat each other up to case and hyphens
SegmentNames == {<<"a","d","m","i","n">>, <<"A","d","m","i","n">>, <<"a","d","-","m","i","n">>, <<"a","u","t","h">>}

\* the file src/api/v1/<segments joined by '/'>.ts
SegmentPath(segs) == <<"s","r","c","/","a","p","i","/","v","1","/">> \o join(segs, <<"/">>) \o s_dotTs

SegmentInputs ==
  \E segs \in SeqsUpTo(SegmentNames, MaxParts) :
     /\ segs # <<>>
     /\ project = <<SourceFile(SegmentPath(segs), "AdminController", <<>>, <<GetProfile>>)>>
     /\ options = Opts(<<>>, None, None, None, <<>>)
     /\ mapped = <<>>
     /\ pc = "ready"
\* every short path over separators, 'v', a digit and a letter, and longer
\* paths with several version segments
PathAlphabet == {"/", "\\", "v", "1", "a"}

VersionPaths ==
  {<<"s","r","c","/","a","p","i","/","v","1","/","v","2","/","a",".","t","s">>, <<"C",":","\\","a","p","p","\\","v","2","\\","a","p","i","\\","v","1","\\","a",".","t","s">>, <<"s","r","c","/","a","p","i","/","v","1","0","/","a",".","t","s">>,
   <<"s","r","c","/","v","/","v","2","a","/","V","1","/","a",".","t","s">>, <<"v","1","/","s","r","c","/","v","2">>, <<"s","r","c","/","a","p","i","\\","v","1","/","v","2","/","a",".","t","s">>}

VersionInputs ==
  \E p \in SeqsUpTo(PathAlphabet, MaxPathLen) \cup VersionPaths :
     /\ project = <<SourceFile(p, "AdminController", s_Admin, <<GetProfile>>)>>
     /\ options = Opts(<<>>, None, None, None, <<>>)
     /\ mapped = <<>>
     /\ pc = "ready"
\* files with a module whose extraction may throw at any step
MaxFiles == 3

FailureInputs ==
  \E fs \in SeqsUpTo({""} \cup ExtractionSteps, MaxFiles) :
     /\ project = [i \in DOMAIN fs |->
                     [SourceFile(PathCases[i].path, ControllerNames[i], s_Admin,
                                 <<GetProfile>>) EXCEPT !.throwsAt = fs[i]]]
     /\ options = Opts(<<>>, None, None, None, <<>>)
     /\ mapped = <<>>
     /\ pc = "ready"

ScanInit ==
  /\ \/ CategoryInputs \/ GroupInputs \/ DocumentedPathInputs
     \/ SegmentInputs \/ VersionInputs \/ FailureInputs
  /\ scanned = <<>>
  /\ grouped = EmptyMap
  /\ controllers = <<>> /\ tags = <<>> /\ schemas = EmptyMap /\ doc = None
  /\ tagsBefore = <<>>
  /\ disk = project
  /\ ServiceInit
  /\ ExtractorInit

\* ControllerScanner.scanControllers()
ScanControllers ==
  /\ pc = "ready"
  /\ scanned' = scanControllers(project)
  /\ pc' = "scanned"
  /\ UNCHANGED <<extractorVars, controllers, options, tags, schemas, doc, tagsBefore, project, mapped, grouped,
                 serviceVars>>

\* the category mapping step of AutoDocsService.scan
ApplyCategoryMapping ==
  /\ pc = "scanned"
  /\ mapped' = applyCategoryMapping(scanned, options.categoryMapping)
  /\ pc' = "mapped"
  /\ UNCHANGED <<extractorVars, controllers, options, tags, schemas, doc, tagsBefore, project, scanned, grouped,
                 serviceVars>>

\* AutoDocsService.getControllersByCategory()
GetControllersByCategory ==
  /\ pc = "mapped"
  /\ grouped' = groupByCategory(mapped)
  /\ pc' = "grouped"
  /\ UNCHANGED <<extractorVars, controllers, options, tags, schemas, doc, tagsBefore, project, scanned, mapped,
                 serviceVars>>

ScanNext == ScanControllers \/ ApplyCategoryMapping \/ GetControllersByCategory

ScanSpec == ScanInit /\ [][ScanNext]_vars
\* ======================================================================
\* AutoDocsService: scan() invocations interleaved with readers
\* ======================================================================
\* this.project.addSourceFilesAtPaths(...): the files on disk that the
\* project does not hold yet are added to it
addSourceFilesAtPaths(proj, files) ==
  LET isNew(f) == ~ \E i \in DOMAIN proj : proj[i].filePath = f.filePath
  IN  proj \o SelectSeq(files, isNew)

\* the controllers scan() works on after the mapping step
mappedControllers(ctrls, opts) == applyCategoryMapping(ctrls, opts.categoryMapping)

\* getOpenApiSpec(): the error, or the stored specification
getOpenApiSpecResult_neverThrows(spec) ==
  [op |-> "getOpenApiSpec", error |-> <<>>, value |-> spec]
getOpenApiSpecResult(spec) ==
  IF spec = None
  THEN [op |-> "getOpenApiSpec", error |-> s_notGenerated, value |-> None]
  ELSE [op |-> "getOpenApiSpec", error |-> <<>>, value |-> spec]

RECURSIVE totalRoutes(_)
totalRoutes(ctrls) ==
  IF ctrls = <<>> THEN 0 ELSE Len(Head(ctrls).routes) + totalRoutes(Tail(ctrls))

getStatsResult(ctrls, time) ==
  [op |-> "getStats",
   totalControllers |-> Len(ctrls),
   totalRoutes |-> totalRoutes(ctrls),
   totalCategories |-> Len(getCategories(ctrls)),
   categories |-> getCategories(ctrls),
   lastScanTime |-> time]

\* the source files a project can hold
AdminFile == SourceFile(s_adminPath, "AdminController", <<>>, <<GetProfile>>)
UserFile == SourceFile(s_userPath, "UserController", <<>>, <<GetProfile>>)
FilePool == {AdminFile, UserFile}

ServiceInputs ==
  \E files \in SeqsUpTo(FilePool, MaxControllers),
     m \in {None, Some(<<Entry(s_admin)>>)} :
     /\ \A i \in DOMAIN files : \A j \in DOMAIN files : i # j => files[i] # files[j]
     /\ disk = files
     /\ options = [Opts(<<>>, None, None, None, <<>>) EXCEPT !.categoryMapping = m]

ServiceSpecInit ==
  /\ ServiceInputs
  /\ project = <<>>
  /\ ScannerInit
  /\ controllers = <<>>
  /\ GeneratorInit
  /\ ServiceInit
  /\ ExtractorInit

\* a file is written to the source tree
writeFile ==
  /\ Len(disk) < MaxControllers + MaxWrites
  /\ \E f \in FilePool :
        /\ ~ \E i \in DOMAIN disk : disk[i] = f
        /\ disk' = Append(disk, f)
  /\ UNCHANGED <<extractorVars, generatorVars, scannerVars, scans, openApiSpec, storedControllers,
                 lastScanTime, now, response, writer>>

\* a file is deleted from the source tree
removeFile ==
  /\ \E i \in DOMAIN disk :
        disk' = SubSeq(disk, 1, i - 1) \o SubSeq(disk, i + 1, Len(disk))
  /\ UNCHANGED <<extractorVars, generatorVars, scannerVars, scans, openApiSpec, storedControllers,
                 lastScanTime, now, response, writer>>

\* scan() up to its await: scanControllers runs to completion and its
\* result waits in the invocation; step is where the invocation stopped, at
\* the clock value at which it published and tree the source tree it was
\* started on (history)
scanStart ==
  /\ Len(scans) < MaxScans
  /\ project' = addSourceFilesAtPaths(project, disk)
  /\ scans' = Append(scans, [pc |-> "awaiting", step |-> "scanning", at |-> 0,
                             tree |-> disk,
                             controllers |-> scanControllers(project')])
  /\ UNCHANGED <<extractorVars, generatorVars, scanned, mapped, grouped, disk, openApiSpec,
                 storedControllers, lastScanTime, now, response, writer>>

\* scanControllers throws: scan() logs and rethrows
scanThrowsInScanning ==
  /\ Len(scans) < MaxScans
  /\ \E p \in {project, addSourceFilesAtPaths(project, disk)} : project' = p
  /\ scans' = Append(scans, [pc |-> "failed", step |-> "scanning", at |-> 0,
                             tree |-> disk,
                             controllers |-> <<>>])
  /\ UNCHANGED <<extractorVars, generatorVars, scanned, mapped, grouped, disk, openApiSpec,
                 storedControllers, lastScanTime, now, response, writer>>

\* the rest of scan() after the await, when nothing throws
scanPublish ==
  \E s \in DOMAIN scans :
     /\ scans[s].pc = "awaiting"
     /\ controllers' = mappedControllers(scans[s].controllers, options)
     /\ storedControllers' = controllers'
     /\ tagsBefore' = tags
     /\ tags' = setTags(clearTags(tags), generateTags(controllers'))
     /\ schemas' = EmptyMap
     /\ doc' = Some(buildSpec(controllers', options, tags', schemas'))
     /\ openApiSpec' = doc'
     /\ lastScanTime' = Some(now)
     /\ now' = now + 1
     /\ scans' = [scans EXCEPT ![s].pc = "done", ![s].step = "done", ![s].at = now']
     /\ writer' = [openApiSpec |-> s, controllers |-> s, lastScanTime |-> s]
     /\ UNCHANGED <<extractorVars, options, pc, scannerVars, disk, response>>

\* applyCategoryMapping or getCategories throws: nothing was stored yet
scanThrowsInMapping ==
  \E s \in DOMAIN scans :
     /\ scans[s].pc = "awaiting"
     /\ scans' = [scans EXCEPT ![s].pc = "failed", ![s].step = "mapping"]
     /\ UNCHANGED <<extractorVars, generatorVars, scannerVars, disk, openApiSpec, storedControllers,
                    lastScanTime, now, response, writer>>

\* generate throws: this.controllers is already assigned, the tags of the
\* generator are cleared and perhaps refilled
scanThrowsInGenerate ==
  \E s \in DOMAIN scans :
     /\ scans[s].pc = "awaiting"
     /\ controllers' = mappedControllers(scans[s].controllers, options)
     /\ storedControllers' = controllers'
     /\ tagsBefore' = tags
     /\ \E t \in {clearTags(tags), setTags(clearTags(tags), generateTags(controllers'))} :
           tags' = t
     /\ schemas' = EmptyMap
     /\ scans' = [scans EXCEPT ![s].pc = "failed", ![s].step = "generation"]
     /\ writer' = [writer EXCEPT !.controllers = s]
     /\ UNCHANGED <<extractorVars, options, doc, pc, scannerVars, disk, openApiSpec, lastScanTime, now,
                    response>>

getOpenApiSpec ==
  /\ response' = Some(getOpenApiSpecResult(openApiSpec))
  /\ UNCHANGED <<extractorVars, generatorVars, scannerVars, disk, scans, openApiSpec, storedControllers,
                 lastScanTime, now, writer>>

getStats ==
  /\ response' = Some(getStatsResult(storedControllers, lastScanTime))
  /\ UNCHANGED <<extractorVars, generatorVars, scannerVars, disk, scans, openApiSpec, storedControllers,
                 lastScanTime, now, writer>>

getControllers ==
  /\ response' = Some([op |-> "getControllers", value |-> storedControllers])
  /\ UNCHANGED <<extractorVars, generatorVars, scannerVars, disk, scans, openApiSpec, storedControllers,
                 lastScanTime, now, writer>>

ServiceNext ==
  \/ writeFile
  \/ scanStart \/ scanThrowsInScanning
  \/ scanPublish \/ scanThrowsInMapping \/ scanThrowsInGenerate
  \/ getOpenApiSpec \/ getStats \/ getControllers

ServiceSpec == ServiceSpecInit /\ [][ServiceNext]_vars

\* the service on a source tree that loses files as well
RescanNext == ServiceNext \/ removeFile

RescanSpec == ServiceSpecInit /\ [][RescanNext]_vars

TypeOK ==
  /\ pc \in {"ready", "done"}
  /\ (pc = "done") <=> (doc # None)

\* ======================================================================
\* Properties
\* ======================================================================
Doc == doc[1]

\* the maximal runs of non-separator characters of s, in order
RECURSIVE PiecesFrom(_, _)
PiecesFrom(s, cur) ==
  IF s = <<>> THEN (IF cur = <<>> THEN <<>> ELSE <<cur>>)
  ELSE IF Head(s) = "/"
       THEN (IF cur = <<>> THEN <<>> ELSE <<cur>>) \o PiecesFrom(Tail(s), <<>>)
       ELSE PiecesFrom(Tail(s), Append(cur, Head(s)))
Pieces(s) == PiecesFrom(s, <<>>)

\* a template read back in colon syntax: '{' becomes ':' and '}' is dropped
\* (no input string of the model holds a brace)
RECURSIVE Unbrace(_)
Unbrace(s) ==
  IF s = <<>> THEN <<>>
  ELSE IF Head(s) = "{" THEN <<":">> \o Unbrace(Tail(s))
  ELSE IF Head(s) = "}" THEN Unbrace(Tail(s))
  ELSE <<Head(s)>> \o Unbrace(Tail(s))

\* the document has a path template made of exactly these pieces, carrying
\* an operation for the route's verb
HasTemplate(pieces, route) ==
  \E k \in DOMAIN Doc.paths :
     /\ Pieces(Unbrace(k)) = pieces
     /\ methodLower(route.httpMethod) \in DOMAIN Doc.paths[k]

RoutesOf == {ij \in (1..MaxControllers + 1) \X (1..MaxRoutes + 1) :
               ij[1] \in DOMAIN controllers /\ ij[2] \in DOMAIN controllers[ij[1]].routes}

PrefixOrDefault == IF options.versioning[1].prefix = <<>> THEN s_api
                   ELSE options.versioning[1].prefix
VersioningOn == options.versioning # None /\ options.versioning[1].enabled
FallbackSet == options.versioning[1].fallback # <<>>

\* C1: with versioning enabled, every route of a controller that has a
\* detected version gets the path template made of the pieces of the version
\* prefix (default '/api'), the version, the controller path and the route
\* path, in that order, also when a fallback is configured.
C1_DetectedVersionPath ==
  (pc = "done" /\ VersioningOn) =>
    \A ij \in RoutesOf :
      LET c == controllers[ij[1]]
          r == c.routes[ij[2]]
      IN  c.version # <<>> =>
            HasTemplate(Pieces(PrefixOrDefault) \o Pieces(c.version)
                        \o Pieces(c.path) \o Pieces(r.path), r)

\* a detected version and a fallback that differs from prefix/version
C1_Witness ==
  /\ pc = "done" /\ VersioningOn
  /\ options.versioning[1].fallback = s_legacy
  /\ options.versioning[1].prefix = s_api
  /\ Len(controllers) = 1 /\ controllers[1].version = s_v1
  /\ controllers[1].path = s_uid
  /\ controllers[1].routes[1].path = s_profile
  /\ DOMAIN Doc.paths = {<<"a","p","i","/","v","1","/","u","/","{","i","d","}","/",
                           "p","r","o","f","i","l","e">>}

\* C3: with versioning enabled, no detected version and a fallback, the path
\* template is made of the pieces of the fallback, the controller path and
\* the route path; prefix and globalPrefix add nothing.
C3_FallbackPath ==
  (pc = "done" /\ VersioningOn /\ FallbackSet) =>
    \A ij \in RoutesOf :
      LET c == controllers[ij[1]]
          r == c.routes[ij[2]]
      IN  c.version = <<>> =>
            HasTemplate(Pieces(options.versioning[1].fallback)
                        \o Pieces(c.path) \o Pieces(r.path), r)

C3_Witness ==
  /\ pc = "done" /\ VersioningOn
  /\ options.versioning[1].fallback = s_legacy
  /\ options.versioning[1].prefix = s_restapi
  /\ options.globalPrefix = s_g
  /\ Len(controllers) = 1 /\ controllers[1].version = <<>>
  /\ controllers[1].path = s_admin
  /\ controllers[1].routes[1].path = s_profile
  /\ DOMAIN Doc.paths = {<<"l","e","g","a","c","y","/","a","d","m","i","n","/",
                           "p","r","o","f","i","l","e">>}

\* the only inferred server when versioning is off
UnversionedServer ==
  IF options.globalPrefix # <<>>
  THEN [url |-> options.globalPrefix, description |-> s_APIServer]
  ELSE IF options.baseServerURL # <<>>
  THEN [url |-> options.baseServerURL, description |-> s_BaseServer]
  ELSE [url |-> <<"/">>, description |-> s_CurrentServer]

\* C4: in every other case (versioning absent or disabled, or enabled with
\* neither a detected version nor a fallback) the path template is made of
\* the pieces of globalPrefix, the controller path and the route path; with
\* versioning off the inferred server list is the single unversioned server.
C4_GlobalPrefixPath ==
  (pc = "done") =>
    /\ \A ij \in RoutesOf :
         LET c == controllers[ij[1]]
             r == c.routes[ij[2]]
         IN  (~VersioningOn \/ (c.version = <<>> /\ ~FallbackSet)) =>
               HasTemplate(Pieces(options.globalPrefix)
                           \o Pieces(c.path) \o Pieces(r.path), r)
    /\ (~VersioningOn /\ options.servers = None) => Doc.servers = <<UnversionedServer>>

\* versioning configured but disabled, a detected version, a fallback
C4_Witness ==
  /\ pc = "done"
  /\ options.versioning # None /\ ~options.versioning[1].enabled
  /\ options.versioning[1].fallback = s_legacy
  /\ options.globalPrefix = s_apiv1
  /\ Len(controllers) = 1 /\ controllers[1].version = s_v2
  /\ controllers[1].path = s_admin
  /\ controllers[1].routes[1].path = s_profile
  /\ DOMAIN Doc.paths = {<<"a","p","i","/","v","1","/","a","d","m","i","n","/",
                           "p","r","o","f","i","l","e">>}
  /\ Doc.servers = <<[url |-> s_apiv1, description |-> s_APIServer]>>

\* the scenario of C2: controller 'admin' in category 'Admin' with version
\* 'v1', one GET route 'profile', versioning enabled with prefix '/api'
RoundTripScenario ==
  /\ controllers = <<Ctl("AdminController", s_admin, s_Admin, s_v1,
                         <<Route("getProfile", "GET", s_profile, FALSE)>>)>>
  /\ options = Opts(<<>>, Versioning(TRUE, s_api, <<>>), None, None, <<>>)

\* C2: in the round-trip scenario the only path template is
\* '/api/v1/admin/profile', with the leading separator, the tag list is
\* exactly the tag 'Admin' and the server list is exactly
\* [{url: '/api/v1', description: 'API V1'}].
C2_RoundTrip ==
  (pc = "done" /\ RoundTripScenario) =>
    /\ DOMAIN Doc.paths = {<<"/","a","p","i","/","v","1","/","a","d","m","i","n","/",
                             "p","r","o","f","i","l","e">>}
    /\ Len(Doc.tags) = 1 /\ Doc.tags[1].name = s_Admin
    /\ Doc.servers = <<[url |-> s_apiv1, description |-> <<"A","P","I"," ","V","1">>]>>

\* what the code produces in that scenario: the template has no leading '/'
C2_CodeBehaviour ==
  (pc = "done" /\ RoundTripScenario) =>
    /\ DOMAIN Doc.paths = {<<"a","p","i","/","v","1","/","a","d","m","i","n","/",
                             "p","r","o","f","i","l","e">>}
    /\ Len(Doc.tags) = 1 /\ Doc.tags[1].name = s_Admin
    /\ Doc.servers = <<[url |-> s_apiv1, description |-> <<"A","P","I"," ","V","1">>]>>

\* ---------------------------------------------------------------- C5
\* no ':' of k is followed by a word character
NoColonToken(k) == \A i \in 1..(Len(k) - 1) : ~(k[i] = ":" /\ IsWordChar(k[i + 1]))

\* the last position of the run of word characters that starts at i
NameEnd(s, i) ==
  CHOOSE e \in i..Len(s) : /\ \A x \in i..e : IsWordChar(s[x])
                           /\ (e = Len(s) \/ ~IsWordChar(s[e + 1]))

\* the names of the ':name' tokens of s, left to right
RECURSIVE TokenNamesFrom(_, _)
TokenNamesFrom(s, i) ==
  IF i >= Len(s) THEN <<>>
  ELSE IF s[i] = ":" /\ IsWordChar(s[i + 1])
       THEN <<SubSeq(s, i + 1, NameEnd(s, i + 1))>> \o TokenNamesFrom(s, NameEnd(s, i + 1) + 1)
       ELSE TokenNamesFrom(s, i + 1)
TokenNames(s) == TokenNamesFrom(s, 1)

\* the contents of the '{...}' placeholders of k, left to right; an unclosed
\* '{' gives the rest of the string with the brace kept
RECURSIVE BraceNamesFrom(_, _)
BraceNamesFrom(k, i) ==
  IF i > Len(k) THEN <<>>
  ELSE IF k[i] = "{"
       THEN IF \E j \in (i + 1)..Len(k) : k[j] = "}"
            THEN LET j == CHOOSE j \in (i + 1)..Len(k) :
                             k[j] = "}" /\ \A x \in (i + 1)..(j - 1) : k[x] # "}"
                 IN  <<SubSeq(k, i + 1, j - 1)>> \o BraceNamesFrom(k, j + 1)
            ELSE <<SubSeq(k, i, Len(k))>>
       ELSE BraceNamesFrom(k, i + 1)
BraceNames(k) == BraceNamesFrom(k, 1)

\* C5: every path template of the document is the combined path of a route
\* with each ':name' token rewritten to '{name}': no ':' followed by a word
\* character remains, and the placeholders are the tokens of the combined
\* path (prefix, controller path and route path alike), same number, same
\* order, same names.
C5_PlaceholdersConverted ==
  (pc = "done") =>
    /\ \A k \in DOMAIN Doc.paths : NoColonToken(k)
    /\ \A ij \in RoutesOf :
         LET c == controllers[ij[1]]
             r == c.routes[ij[2]]
             combined == combinePaths(pathSegments(c, r, options))
         IN  \E k \in DOMAIN Doc.paths :
                /\ Unbrace(k) = combined
                /\ BraceNames(k) = TokenNames(combined)
                /\ Len(k) = Len(combined) + Len(TokenNames(combined))
                /\ methodLower(r.httpMethod) \in DOMAIN Doc.paths[k]

\* one placeholder in the controller path and two in the route path
C5_Witness ==
  /\ pc = "done"
  /\ Len(controllers) = 1
  /\ controllers[1].path = s_uid /\ controllers[1].routes[1].path = s_twoParams
  /\ DOMAIN Doc.paths = {<<"u","/","{","i","d","}","/","{","u","I","d","}","/","r","/",
                           "{","r","I","d","}">>}

\* ---------------------------------------------------------------- C6
\* s with one separator added or removed at either end
SlashVariants(s) ==
  {<<"/">> \o s, s \o <<"/">>, <<"/">> \o s \o <<"/">>}
  \cup (IF s # <<>> /\ s[1] = "/" THEN {Tail(s)} ELSE {})
  \cup (IF s # <<>> /\ s[Len(s)] = "/" THEN {SubSeq(s, 1, Len(s) - 1)} ELSE {})

\* s between its first and its last non-separator character
Trimmed(s) ==
  LET idx == {i \in 1..Len(s) : s[i] # "/"}
  IN  IF idx = {} THEN <<>>
      ELSE SubSeq(s, CHOOSE i \in idx : \A x \in idx : i <= x,
                     CHOOSE i \in idx : \A x \in idx : x <= i)

SlashCount(s) == Cardinality({i \in 1..Len(s) : s[i] = "/"})

RECURSIVE InnerSlashes(_)
InnerSlashes(segs) ==
  IF segs = <<>> THEN 0 ELSE SlashCount(Trimmed(Head(segs))) + InnerSlashes(Tail(segs))

KeptCount(segs) == Cardinality({i \in DOMAIN segs : Trimmed(segs[i]) # <<>>})

\* C6: the combined path of every route is the same when a separator is
\* added or removed at the start or end of any segment; segments that are
\* empty once trimmed are dropped, consecutive kept segments are joined by
\* exactly one separator, the result has no separator at either end, and
\* combining the result again returns it unchanged.
C6_CombineInsensitive ==
  (pc = "done") =>
    \A ij \in RoutesOf :
      LET c == controllers[ij[1]]
          r == c.routes[ij[2]]
          segs == pathSegments(c, r, options)
          combined == combinePaths(segs)
      IN  /\ \E k \in DOMAIN Doc.paths : Unbrace(k) = combined
          /\ \A i \in DOMAIN segs : \A v \in SlashVariants(segs[i]) :
                combinePaths([segs EXCEPT ![i] = v]) = combined
          /\ \A i \in 1..(Len(segs) - 1) :
                combinePaths([segs EXCEPT ![i] = @ \o <<"/">>,
                                          ![i + 1] = <<"/">> \o @]) = combined
          /\ combinePaths(<<combined>>) = combined
          /\ combined # <<>> => (combined[1] # "/" /\ combined[Len(combined)] # "/")
          /\ SlashCount(combined) =
               InnerSlashes(segs) + (IF KeptCount(segs) > 0 THEN KeptCount(segs) - 1 ELSE 0)

\* 'admin/' style and '/profile' style segments give 'admin/profile'
C6_Witness ==
  /\ pc = "done"
  /\ Len(controllers) = 1
  /\ controllers[1].path = s_adminSl /\ controllers[1].routes[1].path = s_profileSl
  /\ options.globalPrefix = <<>> /\ options.versioning = None
  /\ DOMAIN Doc.paths = {<<"a","d","m","i","n","/","p","r","o","f","i","l","e">>}

\* ---------------------------------------------------------------- C7
\* C7: components.securitySchemes holds the bearer scheme 'bearerAuth' (type
\* http, scheme bearer, format JWT) when includeSecurity is absent or true,
\* and is absent exactly when includeSecurity is false, whatever the
\* controllers.
C7_SecuritySchemeDefault ==
  (pc = "done") =>
    /\ (options.includeSecurity # Some(FALSE)) =>
          /\ Doc.components.securitySchemes # None
          /\ Doc.components.securitySchemes[1].bearerAuth.type = "http"
          /\ Doc.components.securitySchemes[1].bearerAuth.scheme = "bearer"
          /\ Doc.components.securitySchemes[1].bearerAuth.bearerFormat = "JWT"
    /\ (options.includeSecurity = Some(FALSE)) <=> (Doc.components.securitySchemes = None)

\* includeSecurity absent, a controller with routes, the scheme present
C7_Witness ==
  /\ pc = "done"
  /\ options.includeSecurity = None
  /\ Len(controllers) = 1 /\ Len(controllers[1].routes) = 2
  /\ Doc.components.securitySchemes # None

\* ---------------------------------------------------------------- C8
Later(a, b) == a[1] < b[1] \/ (a[1] = b[1] /\ a[2] < b[2])
RouteAt(ij) == controllers[ij[1]].routes[ij[2]]
KeyOf(ij) == fullPath(controllers[ij[1]], RouteAt(ij), options)

\* no later route writes the same verb of the same path item
LastWriter(ij) ==
  ~ \E other \in RoutesOf :
       /\ Later(ij, other)
       /\ KeyOf(other) = KeyOf(ij)
       /\ RouteAt(other).httpMethod = RouteAt(ij).httpMethod

\* C8: the operation the document holds for a route carries the security
\* requirement [{bearerAuth: []}] if and only if the route is not public,
\* whatever includeSecurity is.
C8_OperationSecurity ==
  (pc = "done") =>
    \A ij \in RoutesOf :
      LastWriter(ij) =>
        LET op == Doc.paths[KeyOf(ij)][methodLower(RouteAt(ij).httpMethod)]
        IN  /\ (op.security # None) <=> ~RouteAt(ij).isPublic
            /\ ~RouteAt(ij).isPublic => op.security = Some(<<[bearerAuth |-> <<>>]>>)

\* includeSecurity false, a public GET and a protected POST
C8_Witness ==
  /\ pc = "done"
  /\ options.includeSecurity = Some(FALSE)
  /\ Len(controllers) = 1 /\ Len(controllers[1].routes) = 2
  /\ controllers[1].routes[1].httpMethod = "GET" /\ controllers[1].routes[1].isPublic
  /\ controllers[1].routes[2].httpMethod = "POST" /\ ~controllers[1].routes[2].isPublic
  /\ Doc.paths[s_admin \o <<"/">> \o s_profile]["get"].security = None
  /\ Doc.paths[s_admin \o <<"/">> \o s_profile]["post"].security # None

\* ---------------------------------------------------------------- C9
\* C9: when options.servers is provided the server list is exactly
\* options.servers; nothing is inferred from versions, fallback,
\* globalPrefix or baseServerURL.
C9_ExplicitServers ==
  (pc = "done" /\ options.servers # None) => Doc.servers = options.servers[1]

\* explicit servers next to detected versions, a fallback, a globalPrefix
\* and a baseServerURL
C9_Witness ==
  /\ pc = "done"
  /\ options.servers = Some(<<[url |-> s_custom, description |-> s_Custom]>>)
  /\ VersioningOn /\ FallbackSet
  /\ options.globalPrefix # <<>> /\ options.baseServerURL # <<>>
  /\ Len(controllers) = 2 /\ controllers[1].version = s_v1 /\ controllers[2].version = s_v2
  /\ Doc.servers = <<[url |-> s_custom, description |-> s_Custom]>>

\* ---------------------------------------------------------------- C10
DetectedVersions == {controllers[i].version : i \in DOMAIN controllers} \ {<<>>}

\* 'API ' and the upper-cased version, for the versions of the model
VersionLabel(v) ==
  CASE v = s_v1 -> <<"A","P","I"," ","V","1">>
    [] v = s_v2 -> <<"A","P","I"," ","V","2">>
    [] v = s_v10 -> <<"A","P","I"," ","V","1","0">>

\* the versions of the model in lexicographic order
VersionRank(v) == CASE v = s_v1 -> 1 [] v = s_v10 -> 2 [] v = s_v2 -> 3

\* C10: with versioning enabled, no explicit servers and a detected version,
\* the server list has one entry per distinct detected version, in
\* lexicographic order of the versions, each with url prefix + '/' + version
\* and description 'API ' + the upper-cased version, and nothing else.
C10_VersionedServers ==
  (pc = "done" /\ VersioningOn /\ options.servers = None /\ DetectedVersions # {}) =>
    /\ Len(Doc.servers) = Cardinality(DetectedVersions)
    /\ \A v \in DetectedVersions :
          \E i \in DOMAIN Doc.servers :
             Doc.servers[i] = [url |-> PrefixOrDefault \o <<"/">> \o v,
                               description |-> VersionLabel(v)]
    /\ \A i \in DOMAIN Doc.servers : \A j \in DOMAIN Doc.servers :
          i < j =>
            \E v \in DetectedVersions : \E w \in DetectedVersions :
               /\ Doc.servers[i].url = PrefixOrDefault \o <<"/">> \o v
               /\ Doc.servers[j].url = PrefixOrDefault \o <<"/">> \o w
               /\ VersionRank(v) < VersionRank(w)

\* controllers in versions v2 then v10, with a fallback, a globalPrefix and a
\* baseServerURL: the servers are /api/v10 then /api/v2
C10_Witness ==
  /\ pc = "done" /\ VersioningOn /\ options.servers = None
  /\ options.versioning[1].prefix = <<>> /\ FallbackSet
  /\ options.globalPrefix # <<>> /\ options.baseServerURL # <<>>
  /\ Len(controllers) = 2 /\ controllers[1].version = s_v2 /\ controllers[2].version = s_v10
  /\ Doc.servers = <<[url |-> <<"/","a","p","i","/","v","1","0">>,
                      description |-> <<"A","P","I"," ","V","1","0">>],
                     [url |-> <<"/","a","p","i","/","v","2">>,
                      description |-> <<"A","P","I"," ","V","2">>]>>

\* ---------------------------------------------------------------- C11
\* sub occurs in s as a contiguous run of characters
Contains(s, sub) ==
  \E i \in 1..(Len(s) - Len(sub) + 1) : SubSeq(s, i, i + Len(sub) - 1) = sub

s_editable == <<"e","d","i","t","a","b","l","e">>

\* the one server the fallback chain names when no version server applies
ChainServer ==
  CASE VersioningOn /\ FallbackSet ->
         [url |-> options.versioning[1].fallback, description |-> s_APIServer]
    [] ~VersioningOn /\ options.globalPrefix # <<>> ->
         [url |-> options.globalPrefix, description |-> s_APIServer]
    [] OTHER ->
         IF options.baseServerURL # <<>>
         THEN [url |-> options.baseServerURL, description |-> s_BaseServer]
         ELSE [url |-> <<"/">>, description |-> s_CurrentServer]

\* C11: with no explicit servers the inferred server list is never empty;
\* when no version server applies it has exactly one entry: the versioning
\* fallback (versioning enabled, fallback set), else the globalPrefix
\* (versioning disabled, prefix set), else baseServerURL described as
\* 'Base Server', else '/' with a description containing 'editable'.
\* baseServerURL is used only when no other rule produced a server.
C11_ServerFallbackChain ==
  (pc = "done" /\ options.servers = None) =>
    /\ Len(Doc.servers) >= 1
    /\ (~VersioningOn \/ DetectedVersions = {}) =>
         /\ Doc.servers = <<ChainServer>>
         /\ (Doc.servers[1].url = <<"/">> /\ options.baseServerURL = <<>>
               /\ ~(VersioningOn /\ FallbackSet)
               /\ ~(~VersioningOn /\ options.globalPrefix # <<>>)) =>
              Contains(Doc.servers[1].description, s_editable)
    /\ (\E i \in DOMAIN Doc.servers : Doc.servers[i].description = s_BaseServer) =>
         /\ options.baseServerURL # <<>>
         /\ Doc.servers = <<[url |-> options.baseServerURL, description |-> s_BaseServer]>>
         /\ VersioningOn => (DetectedVersions = {} /\ ~FallbackSet)
         /\ ~VersioningOn => options.globalPrefix = <<>>

\* versioning enabled, no detected version and no fallback, next to a
\* globalPrefix and a baseServerURL: the globalPrefix is skipped and the only
\* server is the base server
C11_Witness ==
  /\ pc = "done" /\ options.servers = None
  /\ VersioningOn /\ ~FallbackSet /\ DetectedVersions = {}
  /\ Len(controllers) >= 1
  /\ options.globalPrefix # <<>> /\ options.baseServerURL = s_base
  /\ Doc.servers = <<[url |-> s_base, description |-> s_BaseServer]>>

\* ---------------------------------------------------------------- C12
Categories == {controllers[i].category : i \in DOMAIN controllers} \ {<<>>}

\* the category names of the model in alphabetical order
TagRank(name) ==
  CASE name = s_Admin -> 1 [] name = s_AdminAuth -> 2 [] name = s_beta -> 3
    [] name = s_User -> 4

\* C12: the tag list holds exactly one tag per distinct non-empty controller
\* category, named after it, and is sorted by tag name.
C12_TagsPerCategory ==
  (pc = "done") =>
    /\ {Doc.tags[i].name : i \in DOMAIN Doc.tags} = Categories
    /\ Len(Doc.tags) = Cardinality(Categories)
    /\ \A i \in DOMAIN Doc.tags : \A j \in DOMAIN Doc.tags :
          i < j => TagRank(Doc.tags[i].name) < TagRank(Doc.tags[j].name)

\* categories 'User', 'beta', 'User' in that order: two tags, 'beta' before
\* 'User'
C12_Witness ==
  /\ pc = "done"
  /\ Len(controllers) = 3
  /\ controllers[1].category = s_User /\ controllers[2].category = s_beta
  /\ controllers[3].category = s_User
  /\ Len(Doc.tags) = 2
  /\ Doc.tags[1].name = s_beta /\ Doc.tags[2].name = s_User

\* ---------------------------------------------------------------- C13
\* the categories and mapping keys of the model without case, spaces and
\* hyphens
NormalForm(s) ==
  CASE s \in {s_AdminAuth, s_Admin_Auth} -> <<"a","d","m","i","n","a","u","t","h">>
    [] s \in {s_Admin, s_admin} -> <<"a","d","m","i","n">>
    [] s \in {s_User, s_user} -> <<"u","s","e","r">>

Mapping == options.categoryMapping[1]
ExactHits(c) == {i \in DOMAIN Mapping : Mapping[i].key = c}
NormalizedHits(c) == {i \in DOMAIN Mapping : NormalForm(Mapping[i].key) = NormalForm(c)}
PrefixHits(c) ==
  {i \in DOMAIN Mapping :
     /\ Len(NormalForm(Mapping[i].key)) <= Len(NormalForm(c))
     /\ SubSeq(NormalForm(c), 1, Len(NormalForm(Mapping[i].key))) = NormalForm(Mapping[i].key)}
FirstOf(S) == CHOOSE i \in S : \A j \in S : i <= j

\* the category after a lookup by kind: exact, then normalised, then prefix
LookupByKind(c) ==
  IF ExactHits(c) # {} THEN Mapping[FirstOf(ExactHits(c))].value
  ELSE IF NormalizedHits(c) # {} THEN Mapping[FirstOf(NormalizedHits(c))].value
  ELSE IF PrefixHits(c) # {} THEN Mapping[FirstOf(PrefixHits(c))].value
  ELSE c

\* what the loop does: the first entry, in key order, whose normalised key
\* equals or is a prefix of the normalised category
LookupByEntry(c) ==
  IF ExactHits(c) # {} THEN Mapping[FirstOf(ExactHits(c))].value
  ELSE IF PrefixHits(c) # {} THEN Mapping[FirstOf(PrefixHits(c))].value
  ELSE c

Mapped == pc \in {"mapped", "grouped"} /\ options.categoryMapping # None

\* C13: applyCategoryMapping looks a category up by exact key first, then by
\* normalised equality, then by normalised prefix; a match of an earlier
\* kind wins over a match of a later kind whatever the key order, and the
\* category is kept when nothing matches.
C13_LookupOrder ==
  Mapped => \A i \in DOMAIN scanned : mapped[i].category = LookupByKind(scanned[i].category)

\* the code: exact key first, then the first entry that matches either way
C13_CodeBehaviour ==
  Mapped => \A i \in DOMAIN scanned : mapped[i].category = LookupByEntry(scanned[i].category)

\* category 'Admin - Auth' under the mapping {admin: .., 'Admin Auth': ..}:
\* the prefix key comes first and wins over the normalised-equal key
C13_PrefixBeatsNormalized ==
  /\ Mapped
  /\ Len(scanned) >= 1 /\ scanned[1].category = s_AdminAuth
  /\ Mapping = <<Entry(s_admin), Entry(s_Admin_Auth)>>
  /\ mapped[1].category = Entry(s_admin).value

\* ---------------------------------------------------------------- C14
\* the group a controller belongs to
GroupKey(c) == IF c.category # <<>> THEN c.category ELSE s_Uncategorized

\* the controllers of the input whose group is k, in input order
MembersOf(k) == LET inGroup(c) == GroupKey(c) = k IN SelectSeq(mapped, inGroup)

ServiceVarsOK ==
  /\ now \in 0..MaxScans
  /\ Len(scans) <= MaxScans
  /\ \A s \in DOMAIN scans : scans[s].pc \in {"awaiting", "done", "failed"}

\* the scan() invocations that completed, and the last of them to publish
Successful == {s \in DOMAIN scans : scans[s].pc = "done"}
MostRecent == CHOOSE s \in Successful : \A t \in Successful : scans[t].at <= scans[s].at

\* the document generated from the controllers that invocation s scanned
DocumentOf(s) ==
  buildSpec(mappedControllers(scans[s].controllers, options), options,
            generateTags(mappedControllers(scans[s].controllers, options)), EmptyMap)

\* C15: as long as no scan has completed successfully, failed scans
\* included, getOpenApiSpec raises the 'not generated' error; once a scan has
\* completed it never raises again and returns the document of the most
\* recent successful scan.
C15_SpecNotGenerated ==
  /\ Successful = {} =>
       /\ getOpenApiSpecResult(openApiSpec).error = s_notGenerated
       /\ getOpenApiSpecResult(openApiSpec).value = None
  /\ Successful # {} =>
       /\ getOpenApiSpecResult(openApiSpec).error = <<>>
       /\ getOpenApiSpecResult(openApiSpec).value = Some(DocumentOf(MostRecent))

\* a first invocation failed in generation after storing its controllers, a
\* second one completed on a larger source tree: the reader gets the second
\* one's document
C15_Witness ==
  /\ Len(scans) = 2
  /\ scans[1].pc = "failed" /\ scans[1].step = "generation"
  /\ scans[2].pc = "done"
  /\ Len(scans[1].controllers) = 1 /\ Len(scans[2].controllers) = 2
  /\ response = Some(getOpenApiSpecResult(Some(DocumentOf(2))))
  /\ response[1].error = <<>>

\* ---------------------------------------------------------------- C16
\* a scan() invocation fails in this step
ScanFails ==
  \E s \in DOMAIN scans' :
     /\ scans'[s].pc = "failed"
     /\ s \in DOMAIN scans => scans[s].pc # "failed"

\* C16: a scan is all-or-nothing: when scan() fails at any step (scanning,
\* category mapping or generation) the stored controllers, the stored
\* specification and the last scan time are what they were before.
C16_AllOrNothing ==
  [][ScanFails => UNCHANGED <<storedControllers, openApiSpec, lastScanTime>>]_vars

\* the code: a failing scan leaves the specification and the last scan time
\* alone, and the stored controllers too unless it fails in generation
C16_CodeBehaviour ==
  [][ScanFails =>
       /\ UNCHANGED <<openApiSpec, lastScanTime>>
       /\ (\A s \in DOMAIN scans' : scans'[s].pc = "failed" /\ scans'[s].step = "generation"
                                     => s \in DOMAIN scans /\ scans[s] = scans'[s])
            => UNCHANGED storedControllers]_vars

\* after a first scan() that failed in generation getStats counts a
\* controller while getOpenApiSpec still raises
C16_StatsWithoutSpec ==
  /\ Len(scans) = 1 /\ scans[1].pc = "failed" /\ scans[1].step = "generation"
  /\ openApiSpec = None /\ lastScanTime = None
  /\ getStatsResult(storedControllers, lastScanTime).totalControllers = 1

\* ---------------------------------------------------------------- C17
\* C17: wherever a reader can run, the stored specification, the stored
\* controllers and the last scan time were written by one and the same
\* completed scan() invocation (or are all still initial), under every
\* interleaving of scan() invocations.
C17_NoPartialState ==
  /\ writer.openApiSpec = writer.controllers
  /\ writer.controllers = writer.lastScanTime
  /\ writer.openApiSpec # 0 => scans[writer.openApiSpec].pc = "done"

\* the same for the interleavings in which no invocation has failed in
\* generation
C17_WithoutGenerationFailure ==
  (\A s \in DOMAIN scans : scans[s].step # "generation") => C17_NoPartialState

\* controllers of a failed second invocation next to the specification and
\* scan time of the first
C17_MixedState ==
  /\ Len(scans) = 2
  /\ scans[1].pc = "done" /\ scans[2].pc = "failed"
  /\ writer = [openApiSpec |-> 1, controllers |-> 2, lastScanTime |-> 1]

\* ---------------------------------------------------------------- C18
Scanned == pc \in {"scanned", "mapped", "grouped"}

\* the controllers of the scan that sit in a file of the table and have no
\* module
DocumentedCases ==
  {<<i, k>> \in (DOMAIN scanned) \X (DOMAIN PathCases) :
     /\ project[i].moduleCategory = <<>>
     /\ project[i].filePath = PathCases[k].path
     /\ \A j \in 1..(i - 1) : project[j].className # project[i].className}

\* C18: the path-derived category ignores the file name: the source-root
\* prefix, the file name and every 'controllers' directory are stripped and
\* the category is built from the remaining directory segments
\* ('src/api/v1/messaging/messages.controller.ts' gives 'Messaging'); an
\* empty remainder gives 'Uncategorized'.
C18_CategoryFromDirectories ==
  Scanned => \A ik \in DocumentedCases : scanned[ik[1]].category = PathCases[ik[2]].claimed

\* the code: only the suffix '.controller.ts' is removed, so the file stem
\* stays a segment and disappears only where it repeats its directory
C18_CodeBehaviour ==
  Scanned => \A ik \in DocumentedCases : scanned[ik[1]].category = PathCases[ik[2]].actual

\* the README's third example gives 'Messaging - Messages'
C18_FileStemKept ==
  /\ Scanned
  /\ Len(scanned) >= 1
  /\ scanned[1].filePath = PathCases[3].path
  /\ scanned[1].category = PathCases[3].actual
  /\ scanned[1].category # PathCases[3].claimed

\* ---------------------------------------------------------------- C19
\* the segments of a file src/api/v1/<segments>.ts
SegmentsOf(filePath) == Pieces(SubSeq(filePath, 12, Len(filePath) - 3))

IsSegmentPath(filePath) ==
  /\ Len(filePath) > 14
  /\ SubSeq(filePath, 1, 11) = <<"s","r","c","/","a","p","i","/","v","1","/">>
  /\ \A i \in DOMAIN SegmentsOf(filePath) : SegmentsOf(filePath)[i] \in SegmentNames

\* the names of the model as category parts, and without case, spaces and
\* hyphens
Humanized(seg) ==
  CASE seg = <<"a","d","m","i","n">> -> <<"A","d","m","i","n">>
    [] seg = <<"A","d","m","i","n">> -> <<"A","d","m","i","n">>
    [] seg = <<"a","d","-","m","i","n">> -> <<"A","d"," ","M","i","n">>
    [] seg = <<"a","u","t","h">> -> <<"A","u","t","h">>
Folded(part) ==
  CASE part \in {<<"a","d","m","i","n">>, <<"A","d","m","i","n">>, <<"a","d","-","m","i","n">>, <<"A","d"," ","M","i","n">>} -> <<"a","d","m","i","n">>
    [] part \in {<<"a","u","t","h">>, <<"A","u","t","h">>} -> <<"a","u","t","h">>

\* the parts that open a run of equal segments, from segment i on
RECURSIVE RunHeadsFrom(_, _)
RunHeadsFrom(segs, i) ==
  IF i > Len(segs) THEN <<>>
  ELSE (IF i = 1 \/ Folded(segs[i]) # Folded(segs[i - 1])
        THEN <<Humanized(segs[i])>> ELSE <<>>) \o RunHeadsFrom(segs, i + 1)

RECURSIVE JoinDash(_)
JoinDash(parts) ==
  IF Len(parts) = 1 THEN parts[1]
  ELSE parts[1] \o <<" ","-"," ">> \o JoinDash(Tail(parts))

\* C19: in the path-derived category consecutive segments that are equal
\* ignoring case, spaces and hyphens collapse to the first of them, unequal
\* neighbours are all kept in order and joined with ' - '; the result has no
\* two adjacent parts that are equal after normalisation, and deduplicating
\* it again changes nothing.
C19_CategoryDeduplication ==
  Scanned =>
    \A i \in DOMAIN scanned :
       IsSegmentPath(scanned[i].filePath) =>
         LET segs == SegmentsOf(scanned[i].filePath)
             result == deduplicateCategoryParts([k \in DOMAIN segs |-> Humanized(segs[k])])
         IN  /\ scanned[i].category = JoinDash(RunHeadsFrom(segs, 1))
             /\ result = RunHeadsFrom(segs, 1)
             /\ \A k \in 1..(Len(result) - 1) : Folded(result[k]) # Folded(result[k + 1])
             /\ deduplicateCategoryParts(result) = result

\* src/api/v1/admin/ad-min/auth.ts: 'Admin' and 'Ad Min' collapse to the
\* first, 'Auth' is kept
C19_Witness ==
  /\ Scanned
  /\ Len(scanned) = 1
  /\ scanned[1].filePath = <<"s","r","c","/","a","p","i","/","v","1","/","a","d","m","i","n","/","a","d","-","m","i","n","/","a","u","t","h",".","t","s">>
  /\ scanned[1].category = <<"A","d","m","i","n"," ","-"," ","A","u","t","h">>

\* ---------------------------------------------------------------- C20
\* the pieces of a path between its separators '/' and '\', empty pieces
\* included
RECURSIVE SegmentsFrom(_, _)
SegmentsFrom(s, cur) ==
  IF s = <<>> THEN <<cur>>
  ELSE IF Head(s) \in {"/", "\\"} THEN <<cur>> \o SegmentsFrom(Tail(s), <<>>)
  ELSE SegmentsFrom(Tail(s), Append(cur, Head(s)))

\* 'v' followed by one or more digits
IsVersionSegment(seg) ==
  /\ Len(seg) >= 2
  /\ seg[1] = "v"
  /\ \A i \in 2..Len(seg) : seg[i] \in {"0", "1", "2", "3", "4", "5", "6", "7", "8", "9"}

\* the positions of the version segments that have a separator on both sides
EnclosedVersions(filePath) ==
  {i \in 2..(Len(SegmentsFrom(filePath, <<>>)) - 1) :
     IsVersionSegment(SegmentsFrom(filePath, <<>>)[i])}

\* C20: detectVersionFromPath gives the first path segment, from the left,
\* that is 'v' followed by digits and has a separator ('/' or '\') on both
\* sides, and no version, without error, when there is none.
C20_VersionInference ==
  Scanned =>
    \A i \in DOMAIN scanned :
       LET segs == SegmentsFrom(scanned[i].filePath, <<>>)
           hits == EnclosedVersions(scanned[i].filePath)
       IN  IF hits = {} THEN scanned[i].version = <<>>
           ELSE scanned[i].version = segs[CHOOSE k \in hits : \A j \in hits : k <= j]

\* C:\app\v2\api\v1\a.ts: two enclosed version segments between
\* backslashes, the first one wins
C20_Witness ==
  /\ Scanned
  /\ Len(scanned) = 1
  /\ scanned[1].filePath = <<"C",":","\\","a","p","p","\\","v","2","\\","a","p","i","\\","v","1","\\","a",".","t","s">>
  /\ scanned[1].version = s_v2

\* ---------------------------------------------------------------- C21
\* what a scan of the source tree that invocation s was started on yields
TreeControllers(s) == mappedControllers(scanControllers(scans[s].tree), options)
TreeDocument(s) ==
  buildSpec(TreeControllers(s), options, generateTags(TreeControllers(s)), EmptyMap)

NamesOf(ctrls) == {ctrls[i].name : i \in DOMAIN ctrls}
TagNames(d) == {d.tags[i].name : i \in DOMAIN d.tags}

\* C21: once a scan has completed and its controllers are the stored ones,
\* the stored controllers and the tags of the stored specification are those
\* of the source tree the most recent successful scan was started on: no
\* controller or tag of a file that was deleted before that scan remains.
C21_RescanFromScratch ==
  (Successful # {} /\ writer.controllers = MostRecent) =>
     /\ NamesOf(storedControllers) = NamesOf(TreeControllers(MostRecent))
     /\ TagNames(openApiSpec[1]) = TagNames(TreeDocument(MostRecent))

\* the code: the project only grows, so the stored controllers are those of
\* every file an earlier or the latest scan has seen
C21_CodeBehaviour ==
  (Successful # {} /\ writer.controllers = MostRecent) =>
     /\ NamesOf(TreeControllers(MostRecent)) \subseteq NamesOf(storedControllers)
     /\ NamesOf(storedControllers) \subseteq
          UNION {NamesOf(TreeControllers(s)) : s \in DOMAIN scans}
     /\ TagNames(TreeDocument(MostRecent)) \subseteq TagNames(openApiSpec[1])

\* the first scan saw the admin controller only, the file was deleted and the
\* user controller written, the second scan completed: the admin controller
\* and its tag are still published
C21_RemovedFileStays ==
  /\ Len(scans) = 2 /\ scans[1].pc = "done" /\ scans[2].pc = "done"
  /\ scans[1].at < scans[2].at
  /\ scans[1].tree = <<AdminFile>> /\ scans[2].tree = <<UserFile>>
  /\ NamesOf(storedControllers) = {"AdminController", "UserController"}
  /\ s_Admin \in TagNames(openApiSpec[1])

\* ======================================================================
\* OpenApiGenerator.generate on routes with bodies, parameters and schemas
\* ======================================================================
\* TypeMetadata of a primitive type
PrimitiveType(name) ==
  [type |-> name, format |-> None, isPrimitive |-> TRUE, isArray |-> FALSE,
   elementType |-> None, isEnum |-> FALSE, enumValues |-> None, properties |-> None]

\* PropertyMetadata of a string property
Prop(name, required, validators) ==
  [name |-> name, type |-> Some(PrimitiveType("string")), required |-> required,
   description |-> <<>>, validators |-> validators]

\* DtoMetadata
Dto(name, properties) == [name |-> name, description |-> <<>>, properties |-> properties]

CreateUserDto == Dto("CreateUserDto", <<Prop("email", TRUE, None)>>)

\* one controller whose routes differ in verb and in the body type
BodyInputs ==
  \E rs \in SeqsUpTo(HttpMethods \X {None, Some(CreateUserDto)}, MaxRoutes) :
     /\ controllers = <<Ctl("AdminController", s_admin, s_Admin, <<>>,
                            [i \in DOMAIN rs |->
                               [Route("handler", rs[i][1], s_profile, FALSE)
                                  EXCEPT !.requestBody = rs[i][2]]])>>
     /\ options = Opts(<<>>, None, None, None, <<>>)

\* ------------------------------------------------------- route parameters
MaxParams == 2

\* a parameter of a handler as buildParamMetadata reads it: its decorator,
\* the decorator's argument without quotes ("" when there is none), its own
\* name, and whether it has a question token or an initializer
ParamDecl(decoratorName, arg, name, questionToken, initializer) ==
  [decoratorName |-> decoratorName, arg |-> arg, name |-> name,
   hasQuestionToken |-> questionToken, hasInitializer |-> initializer]

\* TypeMetadata that buildParamMetadata builds for a parameter of type string
ParamType(isOptional) ==
  [type |-> "string", format |-> None, isPrimitive |-> TRUE, isArray |-> FALSE,
   elementType |-> None, isEnum |-> FALSE, enumValues |-> None, properties |-> None,
   isOptional |-> isOptional]

\* the required flag taken from the declared optionality
buildParamMetadata_optionalNotRequired(param) ==
  LET location == IF param.decoratorName = "Param" THEN "path"
                  ELSE IF param.decoratorName = "Headers" THEN "header" ELSE "query"
  IN  [name |-> IF param.arg # "" THEN param.arg ELSE param.name,
       in |-> location,
       type |-> Some(ParamType(param.hasQuestionToken \/ param.hasInitializer)),
       description |-> <<>>,
       required |-> (location = "path"
                       /\ ~(param.hasQuestionToken \/ param.hasInitializer))]
\* RouteScanner.buildParamMetadata
buildParamMetadata(param) ==
  LET location == IF param.decoratorName = "Param" THEN "path"
                  ELSE IF param.decoratorName = "Headers" THEN "header" ELSE "query"
  IN  [name |-> IF param.arg # "" THEN param.arg ELSE param.name,
       in |-> location,
       type |-> Some(ParamType(param.hasQuestionToken \/ param.hasInitializer)),
       description |-> <<>>,
       required |-> (location = "path")]

\* the decorated parameters a handler can declare
ParamDecls ==
  {ParamDecl(d, a, "id", q, i) : d \in {"Param", "Query", "Headers"}, a \in {"", "userId"},
                                 q \in BOOLEAN, i \in BOOLEAN}

\* Parameter Descriptors: those the extractor builds, and descriptors of
\* every location with either required flag
ParamPool ==
  {buildParamMetadata(d) : d \in ParamDecls}
    \cup {[name |-> "id", in |-> l, type |-> Some(ParamType(o)), description |-> <<>>,
           required |-> r] : l \in {"path", "query", "header", "body"},
                             o \in BOOLEAN, r \in BOOLEAN}

\* one GET route whose parameters vary
ParamInputs ==
  \E ps \in SeqsUpTo(ParamPool, MaxParams) :
     /\ controllers = <<Ctl("AdminController", s_admin, s_Admin, <<>>,
                            <<[Route("handler", "GET", s_uid, FALSE) EXCEPT !.params = ps]>>)>>
     /\ options = Opts(<<>>, None, None, None, <<>>)

\* ------------------------------------------------------- object schemas
\* a validator as extractPropertyValidators records it, and one that carries
\* a required constraint
Validator(name) == [name |-> name, constraints |-> None]
RequiredConstraint(name, required) ==
  [name |-> name, constraints |-> Some([NoConstraints EXCEPT !.required = Some(required)])]

\* the validators of a property: none, presence, optionality, both in either
\* order, and the required constraint set either way
ValidatorLists ==
  {None, Some(<<>>),
   Some(<<Validator("IsNotEmpty")>>), Some(<<Validator("IsOptional")>>),
   Some(<<Validator("IsNotEmpty"), Validator("IsOptional")>>),
   Some(<<Validator("IsOptional"), Validator("IsNotEmpty")>>),
   Some(<<RequiredConstraint("IsDefined", TRUE)>>),
   Some(<<RequiredConstraint("ValidateIf", FALSE), Validator("IsNotEmpty")>>)}

\* TypeMetadata of an object type with these properties
ObjectType(name, properties) ==
  [type |-> name, format |-> None, isPrimitive |-> FALSE, isArray |-> FALSE,
   elementType |-> None, isEnum |-> FALSE, enumValues |-> None,
   properties |-> Some(properties)]

\* a POST route whose body has a string property and an object property with
\* one property of its own; required flags and validators vary
SchemaInputs ==
  \E r1 \in BOOLEAN, v1 \in ValidatorLists, r2 \in BOOLEAN, v2 \in ValidatorLists :
     /\ controllers =
          <<Ctl("AdminController", s_admin, s_Admin, <<>>,
                <<[Route("handler", "POST", s_profile, FALSE) EXCEPT
                     !.requestBody =
                        Some(Dto("CreateUserDto",
                                 <<Prop("email", r1, v1),
                                   [Prop("address", TRUE, None) EXCEPT
                                      !.type = Some(ObjectType("AddressDto",
                                                      <<Prop("city", r2, v2)>>))]>>))]>>)>>
     /\ options = Opts(<<>>, None, None, None, <<>>)

OperationInit ==
  /\ BodyInputs \/ ParamInputs \/ SchemaInputs \/ TagInputs \/ SecurityInputs
  /\ GeneratorInit
  /\ project = <<>> /\ disk = <<>>
  /\ ScannerInit
  /\ ServiceInit
  /\ ExtractorInit

OperationSpec == OperationInit /\ [][Next]_vars

\* the operation the document holds for route ij
OperationOf(ij) == Doc.paths[KeyOf(ij)][methodLower(RouteAt(ij).httpMethod)]

\* ---------------------------------------------------------------- C22
\* C22: the operation the document holds for a route has a request body if
\* and only if the route's verb is POST, PUT or PATCH and the route has a
\* body type; the body is then required and is that type's schema.  GET,
\* DELETE, OPTIONS and HEAD operations never have one.
C22_RequestBodyAttachment ==
  (pc = "done") =>
    \A ij \in RoutesOf :
      LastWriter(ij) =>
        /\ (OperationOf(ij).requestBody # None) <=>
             (RouteAt(ij).httpMethod \in {"POST", "PUT", "PATCH"}
                /\ RouteAt(ij).requestBody # None)
        /\ RouteAt(ij).httpMethod \in {"GET", "DELETE", "OPTIONS", "HEAD"}
             => OperationOf(ij).requestBody = None
        /\ OperationOf(ij).requestBody # None =>
             /\ OperationOf(ij).requestBody[1].required
             /\ OperationOf(ij).requestBody[1].schema.properties[1][1][1] = "email"

\* a DELETE route that has a body type next to a PATCH route that has one:
\* only the PATCH operation carries it
C22_Witness ==
  /\ pc = "done"
  /\ Len(controllers) = 1
  /\ Len(controllers[1].routes) = 2
  /\ controllers[1].routes[1].httpMethod = "DELETE"
  /\ controllers[1].routes[1].requestBody # None
  /\ controllers[1].routes[2].httpMethod = "PATCH"
  /\ controllers[1].routes[2].requestBody # None
  /\ Doc.paths[KeyOf(<<1, 1>>)]["delete"].requestBody = None
  /\ Doc.paths[KeyOf(<<1, 2>>)]["patch"].requestBody # None

\* ---------------------------------------------------------------- C23
\* the parameter objects of the operation of route ij
ParametersOf(ij) ==
  IF OperationOf(ij).parameters = None THEN <<>> ELSE OperationOf(ij).parameters[1]

\* C23: a Parameter Descriptor that the route extractor builds for a @Param
\* parameter has location 'path' and is required whether or not the
\* parameter is declared optional; every descriptor of location 'path'
\* yields a parameter object in the document, every parameter object of
\* location 'path' is required whatever the descriptor's flag, and the
\* parameter objects are the path and query descriptors in order.
C23_PathParamsRequired ==
  /\ \A d \in ParamDecls :
        /\ (buildParamMetadata(d).in = "path") <=> (d.decoratorName = "Param")
        /\ buildParamMetadata(d).in = "path" => buildParamMetadata(d).required
  /\ (pc = "done") =>
       \A ij \in RoutesOf :
         LastWriter(ij) =>
           LET emitted(p) == p.in \in {"path", "query"}
               kept == SelectSeq(RouteAt(ij).params, emitted)
           IN  /\ Len(ParametersOf(ij)) = Len(kept)
               /\ \A k \in DOMAIN kept :
                     /\ ParametersOf(ij)[k].name = kept[k].name
                     /\ ParametersOf(ij)[k].in = kept[k].in
                     /\ kept[k].in = "path" => ParametersOf(ij)[k].required

\* an optional @Param parameter and a path descriptor whose required flag is
\* false: both parameter objects are required
C23_Witness ==
  /\ pc = "done"
  /\ Len(controllers) = 1
  /\ Len(controllers[1].routes) = 1
  /\ Len(controllers[1].routes[1].params) = 2
  /\ controllers[1].routes[1].params[1] =
       buildParamMetadata(ParamDecl("Param", "userId", "id", TRUE, FALSE))
  /\ controllers[1].routes[1].params[1].type[1].isOptional
  /\ controllers[1].routes[1].params[2].in = "path"
  /\ ~controllers[1].routes[1].params[2].required
  /\ ParametersOf(<<1, 1>>)[1].required
  /\ ParametersOf(<<1, 1>>)[2].required

\* ---------------------------------------------------------------- C24
\* the property carries a non-emptiness or required constraint / an explicit
\* optionality constraint
CarriesRequired(p) ==
  /\ p.validators # None
  /\ \E i \in DOMAIN p.validators[1] :
        \/ p.validators[1][i].name = "IsNotEmpty"
        \/ /\ p.validators[1][i].constraints # None
           /\ p.validators[1][i].constraints[1].required = Some(TRUE)
CarriesOptional(p) ==
  /\ p.validators # None
  /\ \E i \in DOMAIN p.validators[1] :
        \/ p.validators[1][i].name = "IsOptional"
        \/ /\ p.validators[1][i].constraints # None
           /\ p.validators[1][i].constraints[1].required = Some(FALSE)

\* the names a schema lists as required, and the schema of one property
RequiredNames(schema) == IF schema.required = None THEN {} ELSE Range(schema.required[1])
PropertySchema(schema, name) ==
  schema.properties[1][CHOOSE i \in DOMAIN schema.properties[1] :
                          schema.properties[1][i][1] = name][2]

\* the routes whose body schema is in the document
BodyRoutes ==
  {ij \in RoutesOf : LastWriter(ij) /\ OperationOf(ij).requestBody # None}
BodySchema(ij) == OperationOf(ij).requestBody[1].schema
BodyProperties(ij) == RouteAt(ij).requestBody[1].properties
NestedProperties(p) ==
  IF p.type # None /\ p.type[1].properties # None THEN p.type[1].properties[1] ELSE <<>>

\* C24: in the body schema of a route and in the object schemas nested in
\* it, a property is listed as required only if it carries a non-emptiness
\* or required constraint and no explicit optionality constraint.
C24_RequiredPrecedence ==
  (pc = "done") =>
    \A ij \in BodyRoutes :
      \A k \in DOMAIN BodyProperties(ij) :
        LET p == BodyProperties(ij)[k]
        IN  /\ p.name \in RequiredNames(BodySchema(ij))
                 => CarriesRequired(p) /\ ~CarriesOptional(p)
            /\ \A n \in DOMAIN NestedProperties(p) :
                  LET q == NestedProperties(p)[n]
                  IN  q.name \in RequiredNames(PropertySchema(BodySchema(ij), p.name))
                        => CarriesRequired(q) /\ ~CarriesOptional(q)

\* the code: the top-level schema lists the properties whose descriptor is
\* flagged required, whatever their validators; nested object schemas follow
\* the precedence rule
C24_CodeBehaviour ==
  (pc = "done") =>
    \A ij \in BodyRoutes :
      \A k \in DOMAIN BodyProperties(ij) :
        LET p == BodyProperties(ij)[k]
        IN  /\ (p.name \in RequiredNames(BodySchema(ij))) <=> p.required
            /\ \A n \in DOMAIN NestedProperties(p) :
                  LET q == NestedProperties(p)[n]
                  IN  (q.name \in RequiredNames(PropertySchema(BodySchema(ij), p.name)))
                        <=> (CarriesRequired(q) /\ ~CarriesOptional(q))

\* a top-level property declared without '?' that carries IsOptional only is
\* listed as required; the nested one with the same validators is not
C24_OptionalListedRequired ==
  /\ pc = "done"
  /\ BodyRoutes = {<<1, 1>>}
  /\ Len(BodyProperties(<<1, 1>>)) = 2
  /\ BodyProperties(<<1, 1>>)[1].required
  /\ BodyProperties(<<1, 1>>)[1].validators = Some(<<Validator("IsOptional")>>)
  /\ NestedProperties(BodyProperties(<<1, 1>>)[2])[1].validators
       = Some(<<Validator("IsOptional")>>)
  /\ "email" \in RequiredNames(BodySchema(<<1, 1>>))
  /\ "city" \notin RequiredNames(PropertySchema(BodySchema(<<1, 1>>), "address"))

\* ---------------------------------------------------------------- C25
\* the files of the project whose class is extracted without a throw
Healthy == LET extracts(f) == f.throwsAt = "" IN SelectSeq(project, extracts)

\* C25: whatever step of whatever class throws, the result of
\* scanControllers is exactly the classes whose extraction does not throw,
\* in the order of their files, each with its own name, file, routes and
\* module category.
C25_FailingControllerDropped ==
  Scanned =>
    /\ Len(scanned) = Len(Healthy)
    /\ \A k \in DOMAIN Healthy :
          /\ scanned[k].name = Healthy[k].className
          /\ scanned[k].filePath = Healthy[k].filePath
          /\ scanned[k].routes = Healthy[k].routes
          /\ Healthy[k].moduleCategory # <<>>
               => scanned[k].category = Healthy[k].moduleCategory

\* three files, the route extraction of the second class throws: the first
\* and the third controller are returned
C25_Witness ==
  /\ Scanned
  /\ Len(project) = 3
  /\ project[1].throwsAt = "" /\ project[2].throwsAt = "routes" /\ project[3].throwsAt = ""
  /\ Len(scanned) = 2
  /\ scanned[1].name = "AdminController"
  /\ scanned[2].name = "AuthController"

\* ======================================================================
\* RouteScanner: the response type of a handler
\* ======================================================================
MaxMembers == 3

\* the DTO classes the project declares: name and declared properties
DtoClasses ==
  {[name |-> "UserDto", properties |-> <<[name |-> "email", optional |-> FALSE]>>],
   [name |-> "OrderDto", properties |-> <<[name |-> "total", optional |-> TRUE]>>]}

\* a type as the route scanner sees it.  text is getText() where the code
\* compares it with literals; qualified lists the names that occur in the
\* text as import("...").Name, from left to right; properties are the
\* properties of an object type, each with a symbol the checker finds or not;
\* throws says that reading the properties throws; isClass that the type is
\* declared by a class
TypeHandle(text, qualified, isObject, properties, throws) ==
  [text |-> text, qualified |-> qualified, isUnion |-> FALSE, unionTypes |-> <<>>,
   isObject |-> isObject, isClass |-> FALSE, properties |-> properties,
   throws |-> throws]

Keyword(text) == TypeHandle(text, <<>>, FALSE, <<>>, FALSE)

\* a class of the project, printed bare (declared in the same file) or
\* qualified by its import
ClassType(name, isQualified) ==
  [TypeHandle(IF isQualified THEN "import" ELSE name,
              IF isQualified THEN <<name>> ELSE <<>>, TRUE, <<>>, FALSE)
     EXCEPT !.isClass = TRUE]

\* an interface of another file: an object type that is no class
InterfaceType(name, properties) == TypeHandle("import", <<name>>, TRUE, properties, FALSE)

\* an object type literal
LiteralType(properties, throws) == TypeHandle("literal", <<>>, TRUE, properties, throws)

RECURSIVE qualifiedNames(_)
qualifiedNames(members) ==
  IF members = <<>> THEN <<>> ELSE Head(members).qualified \o qualifiedNames(Tail(members))

\* a union type: its text is its members' texts joined by ' | '
UnionType(members) ==
  [text |-> "union", qualified |-> qualifiedNames(members), isUnion |-> TRUE,
   unionTypes |-> members, isObject |-> FALSE, isClass |-> FALSE, properties |-> <<>>,
   throws |-> FALSE]

\* findDtoClass: the name after import("...") of the first qualified name in
\* the text, else the text itself, looked up among the classes of the project
findDtoClass(type) ==
  LET cleanTypeName == IF type.qualified # <<>> THEN type.qualified[1] ELSE type.text
  IN  IF \E c \in DtoClasses : c.name = cleanTypeName
      THEN Some(CHOOSE c \in DtoClasses : c.name = cleanTypeName)
      ELSE None

analyzeDtoClass(dtoClass) ==
  Dto(dtoClass.name,
      [i \in DOMAIN dtoClass.properties |->
         Prop(dtoClass.properties[i].name, ~dtoClass.properties[i].optional, Some(<<>>))])

analyzeInlineObjectType(type) ==
  LET hasSymbol(p) == p.hasSymbol
      found == SelectSeq(type.properties, hasSymbol)
  IN  IF type.throws \/ type.properties = <<>> \/ found = <<>> THEN None
      ELSE Some(Dto("InlineType",
                    [i \in DOMAIN found |-> Prop(found[i].name, TRUE, Some(<<>>))]))

\* the loop of analyzeInlineType over the members of a union
RECURSIVE unionLoop(_)
unionLoop(unionTypes) ==
  IF unionTypes = <<>> THEN None
  ELSE LET unionType == Head(unionTypes)
           dtoClass == findDtoClass(unionType)
           inlineDto == analyzeInlineObjectType(unionType)
       IN  IF unionType.text \in {"null", "undefined", "void"} THEN unionLoop(Tail(unionTypes))
           ELSE IF dtoClass # None THEN Some(analyzeDtoClass(dtoClass[1]))
           ELSE IF unionType.isObject /\ inlineDto # None
                   /\ Len(inlineDto[1].properties) > 0
           THEN inlineDto
           ELSE unionLoop(Tail(unionTypes))

analyzeInlineType(type) ==
  IF type.isUnion THEN unionLoop(type.unionTypes)
  ELSE IF type.isObject THEN analyzeInlineObjectType(type)
  ELSE None

\* extractResponseType on the return type with Promise<> removed
extractResponseType(type) ==
  IF type.text \in {"void", "string", "number", "boolean", "any", "unknown"} THEN None
  ELSE IF findDtoClass(type) # None THEN Some(analyzeDtoClass(findDtoClass(type)[1]))
  ELSE analyzeInlineType(type)

\* the types a union is made of
MemberPool ==
  {Keyword("null"), Keyword("undefined"), Keyword("void"), Keyword("string"),
   ClassType("UserDto", FALSE), ClassType("UserDto", TRUE), ClassType("OrderDto", TRUE),
   InterfaceType("Shape", <<[name |-> "ok", hasSymbol |-> TRUE]>>),
   LiteralType(<<[name |-> "ok", hasSymbol |-> TRUE]>>, FALSE),
   LiteralType(<<[name |-> "ok", hasSymbol |-> FALSE]>>, FALSE),
   LiteralType(<<>>, FALSE),
   LiteralType(<<[name |-> "ok", hasSymbol |-> TRUE]>>, TRUE)}

\* a handler that returns one of the types or a union of them
ExtractInit ==
  /\ \/ \E t \in MemberPool : returnType = Some(t)
     \/ \E ms \in SeqsUpTo(MemberPool, MaxMembers) :
           /\ Len(ms) >= 2
           /\ \A i \in DOMAIN ms : \A j \in DOMAIN ms : i # j => ms[i] # ms[j]
           /\ returnType = Some(UnionType(ms))
  /\ extracted = None
  /\ controllers = <<>>
  /\ options = Opts(<<>>, None, None, None, <<>>)
  /\ GeneratorInit
  /\ project = <<>> /\ disk = <<>>
  /\ ScannerInit
  /\ ServiceInit

\* RouteScanner.extractResponseType(method)
ExtractResponseType ==
  /\ extracted = None
  /\ extracted' = Some([responseType |-> extractResponseType(returnType[1])])
  /\ UNCHANGED <<returnType, generatorVars, scannerVars, serviceVars>>

ExtractNext == ExtractResponseType

ExtractSpec == ExtractInit /\ [][ExtractNext]_vars

\* ---------------------------------------------------------------- C26
\* the member is a class of the project / an object type whose properties
\* can be read and of which at least one is found
IsKnownClass(m) == m.isClass /\ \E c \in DtoClasses : c.name \in {m.text} \cup Range(m.qualified)
IsInlineObject(m) ==
  /\ m.isObject /\ ~m.isClass /\ ~m.throws
  /\ \E i \in DOMAIN m.properties : m.properties[i].hasSymbol
Resolvable(m) ==
  /\ m.text \notin {"null", "undefined", "void"}
  /\ IsKnownClass(m) \/ IsInlineObject(m)

\* the name of the type descriptor a member resolves to
ResolvedName(m) ==
  IF ~IsKnownClass(m) THEN "InlineType"
  ELSE IF m.qualified # <<>> THEN m.qualified[1] ELSE m.text

FirstResolvable(ms) ==
  LET hits == {i \in DOMAIN ms : Resolvable(ms[i])}
  IN  IF hits = {} THEN 0 ELSE CHOOSE i \in hits : \A j \in hits : i <= j

\* C26: the response type of a handler that returns a union is the
\* descriptor of the first member, in declaration order, that is a class of
\* the project or an object type with at least one property, null, undefined
\* and void being skipped; it is absent when no member resolves.
C26_UnionResolution ==
  (extracted # None /\ returnType[1].isUnion) =>
     LET ms == returnType[1].unionTypes
         first == FirstResolvable(ms)
     IN  IF first = 0 THEN extracted[1].responseType = None
         ELSE /\ extracted[1].responseType # None
              /\ extracted[1].responseType[1].name = ResolvedName(ms[first])

\* the code: extractResponseType first looks for a class in the text of the
\* whole union, so a class whose name is the first import-qualified name of
\* the text wins over the members before it; otherwise the first resolvable
\* member wins
C26_CodeBehaviour ==
  (extracted # None /\ returnType[1].isUnion) =>
     LET ms == returnType[1].unionTypes
         first == FirstResolvable(ms)
         names == returnType[1].qualified
     IN  IF names # <<>> /\ \E c \in DtoClasses : c.name = names[1]
         THEN /\ extracted[1].responseType # None
              /\ extracted[1].responseType[1].name = names[1]
         ELSE IF first = 0 THEN extracted[1].responseType = None
         ELSE /\ extracted[1].responseType # None
              /\ extracted[1].responseType[1].name = ResolvedName(ms[first])

\* { ok } | UserDto with UserDto imported: the response type is UserDto
\* although the object literal comes first and has a property
C26_LaterClassWins ==
  /\ extracted # None
  /\ returnType[1].isUnion
  /\ returnType[1].unionTypes =
       <<LiteralType(<<[name |-> "ok", hasSymbol |-> TRUE]>>, FALSE),
         ClassType("UserDto", TRUE)>>
  /\ extracted[1].responseType[1].name = "UserDto"

\* ---------------------------------------------------------------- C27
\* the controllers of a category that supply a description
Suppliers(category) ==
  {i \in DOMAIN controllers :
     controllers[i].category = category /\ controllers[i].description # <<>>}

\* C27: the description of a category's tag is the description of one of
\* the category's controllers whenever one of them supplies a description,
\* and '{category} related endpoints' only when none does, in whatever order
\* the controllers come.
C27_TagDescription ==
  (pc = "done") =>
    \A t \in DOMAIN Doc.tags :
       LET tag == Doc.tags[t]
       IN  IF Suppliers(tag.name) = {}
           THEN tag.description = tag.name \o s_relatedEndpoints
           ELSE \E i \in Suppliers(tag.name) : tag.description = controllers[i].description

\* the code: the first controller of the category alone decides
C27_CodeBehaviour ==
  (pc = "done") =>
    \A t \in DOMAIN Doc.tags :
       LET tag == Doc.tags[t]
           members == {i \in DOMAIN controllers : controllers[i].category = tag.name}
           first == CHOOSE i \in members : \A j \in members : i <= j
       IN  tag.description = IF controllers[first].description # <<>>
                             THEN controllers[first].description
                             ELSE tag.name \o s_relatedEndpoints

\* two controllers of category 'Admin', only the second with a description:
\* the tag says 'Admin related endpoints'
C27_DefaultDespiteDescription ==
  /\ pc = "done"
  /\ Len(controllers) = 2
  /\ controllers[1].category = s_Admin /\ controllers[1].description = <<>>
  /\ controllers[2].category = s_Admin /\ controllers[2].description = s_Users
  /\ Len(Doc.tags) = 1
  /\ Doc.tags[1].description = s_Admin \o s_relatedEndpoints

\* ---------------------------------------------------------------- C28
\* the scheme names an operation's security requirement uses, and the
\* names the document defines
UsedSchemes(op) == IF op.security = None THEN {} ELSE {"bearerAuth"}
DefinedSchemes ==
  IF Doc.components.securitySchemes = None THEN {} ELSE {"bearerAuth"}

\* the operations of the document
Operations ==
  {Doc.paths[k][m] : <<k, m>> \in {km \in (DOMAIN Doc.paths) \X SwitchCases :
                                     km[2] \in DOMAIN Doc.paths[km[1]]}}

\* C28: every scheme name that an operation's security requirement uses is
\* defined in components.securitySchemes; with includeSecurity false no
\* operation references 'bearerAuth'.
C28_SecurityRefsDefined ==
  (pc = "done") =>
    /\ \A op \in Operations : UsedSchemes(op) \subseteq DefinedSchemes
    /\ options.includeSecurity = Some(FALSE) =>
         \A op \in Operations : op.security = None

\* the code: the requirement follows the public flag and the scheme follows
\* includeSecurity, each without regard to the other
C28_CodeBehaviour ==
  (pc = "done") =>
    /\ (DefinedSchemes = {}) <=> (options.includeSecurity = Some(FALSE))
    /\ \A ij \in RoutesOf :
         LastWriter(ij) => ((OperationOf(ij).security = None) <=> RouteAt(ij).isPublic)

\* includeSecurity false and a protected GET: the operation requires
\* bearerAuth and the document defines no scheme
C28_DanglingReference ==
  /\ pc = "done"
  /\ options.includeSecurity = Some(FALSE)
  /\ Len(controllers) = 1 /\ Len(controllers[1].routes) = 1
  /\ controllers[1].routes[1].httpMethod = "GET"
  /\ ~controllers[1].routes[1].isPublic
  /\ Doc.components.securitySchemes = None
  /\ OperationOf(<<1, 1>>).security = Some(<<BearerRequirement>>)

\* ======================================================================
\* One OpenApiGenerator instance asked for several documents in a row
\* ======================================================================
\* the arguments of a generate call: controllers that differ in category and
\* description, with and without a global prefix
RegenerateArgs ==
  {<<[i \in DOMAIN cs |->
        [Ctl("AdminController", s_admin, cs[i][1], <<>>, <<GetProfile>>)
           EXCEPT !.description = cs[i][2]]],
     Opts(g, None, None, None, <<>>)>> :
     cs \in SeqsUpTo({<<<<>>, <<>>>>, <<s_Admin, <<>>>>, <<s_User, <<>>>>, <<s_User, s_Users>>},
                     MaxControllers),
     g \in {<<>>, s_api}}

RegenerateInit ==
  /\ \E args \in RegenerateArgs : controllers = args[1] /\ options = args[2]
  /\ GeneratorInit
  /\ project = <<>> /\ disk = <<>>
  /\ ScannerInit
  /\ ServiceInit
  /\ ExtractorInit

\* a later generate(controllers, options) call on the same instance
generateAgain ==
  /\ pc = "done"
  /\ \E args \in RegenerateArgs : controllers' = args[1] /\ options' = args[2]
  /\ tagsBefore' = tags
  /\ tags' = setTags(clearTags(tags), generateTags(controllers'))
  /\ schemas' = EmptyMap
  /\ doc' = Some(buildSpec(controllers', options', tags', schemas'))
  /\ pc' = "done"
  /\ UNCHANGED <<extractorVars, scannerVars, serviceVars>>

RegenerateNext == generate \/ generateAgain

RegenerateSpec == RegenerateInit /\ [][RegenerateNext]_vars

\* the categories of the controllers of the current call
CurrentCategories == {controllers[c].category : c \in DOMAIN controllers} \ {<<>>}

\* C29: the document a generate call returns is the document a new generator
\* would return for that call's controllers and options: every tag of it
\* belongs to a controller of this call and no schema component of an earlier
\* call is in it
C29_HistoryIndependent ==
  pc = "done" =>
    /\ doc = Some(buildSpec(controllers, options, generateTags(controllers), EmptyMap))
    /\ \A t \in DOMAIN Doc.tags : Doc.tags[t].name \in CurrentCategories
    /\ Doc.components.schemas = EmptyMap

\* a call that found a tag of an earlier call which none of its own
\* controllers has, and returned tags of its own
C29_Witness ==
  /\ pc = "done"
  /\ \E t \in DOMAIN tagsBefore : tagsBefore[t].name \notin CurrentCategories
  /\ CurrentCategories # {}
  /\ Len(Doc.tags) = Cardinality(CurrentCategories)

\* ======================================================================
\* OpenApiGenerator.generate on controllers whose routes may share a path
\* template
\* ======================================================================
VersionedNames == <<"AdminControllerV1", "AdminControllerV2", "AdminControllerV3">>
HandlerNames == <<"getProfile", "updateProfile", "removeProfile">>

\* controllers with base path 'admin' found in the v1 and v2 directories,
\* each with routes '/profile' under GET or POST, versioning absent,
\* disabled or enabled
CoincidingInputs ==
  \E cs \in SeqsUpTo({s_v1, s_v2} \X SeqsUpTo({"GET", "POST"}, MaxRoutes), MaxControllers),
     vc \in {None, Versioning(FALSE, s_api, <<>>), Versioning(TRUE, s_api, <<>>)} :
     /\ controllers = [i \in DOMAIN cs |->
                         Ctl(VersionedNames[i], s_admin, s_Admin, cs[i][1],
                             [j \in DOMAIN cs[i][2] |->
                                Route(HandlerNames[j], cs[i][2][j], s_profile, FALSE)])]
     /\ options = Opts(<<>>, vc, None, None, <<>>)

CoincidingInit ==
  /\ CoincidingInputs
  /\ GeneratorInit
  /\ project = <<>> /\ disk = <<>>
  /\ ScannerInit
  /\ ServiceInit
  /\ ExtractorInit

CoincidingSpec == CoincidingInit /\ [][Next]_vars

\* the document holds, under the route's path template and verb, the
\* operation made from this route
Represented(ij) ==
  /\ KeyOf(ij) \in DOMAIN Doc.paths
  /\ methodLower(RouteAt(ij).httpMethod) \in DOMAIN Doc.paths[KeyOf(ij)]
  /\ OperationOf(ij) = createOperation(RouteAt(ij), controllers[ij[1]])

\* ---------------------------------------------------------------- C30
\* C30: every route of every controller is represented by its own operation
\* in the document: routes of one path template with different verbs are
\* separate operations of that path item, and no route is overwritten by
\* another route of the same path template and verb.
C30_NoRouteLost ==
  (pc = "done") => \A ij \in RoutesOf : Represented(ij)

\* what the code does: a route is represented when no later route has its
\* path template and verb; otherwise the path item holds the operation of
\* the last such route; routes that differ in verb share the path item
C30_CodeBehaviour ==
  (pc = "done") =>
    \A ij \in RoutesOf :
      /\ LastWriter(ij) => Represented(ij)
      /\ \A other \in RoutesOf :
           (/\ Later(ij, other) /\ LastWriter(other)
            /\ KeyOf(other) = KeyOf(ij)
            /\ RouteAt(other).httpMethod = RouteAt(ij).httpMethod)
           => OperationOf(ij) = createOperation(RouteAt(other), controllers[other[1]])
      /\ \A other \in RoutesOf :
           (KeyOf(other) = KeyOf(ij) /\ RouteAt(other).httpMethod # RouteAt(ij).httpMethod)
           => {methodLower(RouteAt(ij).httpMethod), methodLower(RouteAt(other).httpMethod)}
                \subseteq DOMAIN Doc.paths[KeyOf(ij)]

\* the controllers of the v1 and v2 directories with versioning disabled:
\* the document has one operation, the one of the v2 controller
C30_RouteOverwritten ==
  /\ pc = "done"
  /\ options.versioning = Versioning(FALSE, s_api, <<>>)
  /\ Len(controllers) = 2
  /\ controllers[1].version = s_v1 /\ controllers[2].version = s_v2
  /\ Len(controllers[1].routes) = 1 /\ Len(controllers[2].routes) = 1
  /\ RouteAt(<<1, 1>>).httpMethod = "GET" /\ RouteAt(<<2, 1>>).httpMethod = "GET"
  /\ DOMAIN Doc.paths = {KeyOf(<<1, 1>>)}
  /\ DOMAIN Doc.paths[KeyOf(<<1, 1>>)] = {"get"}
  /\ OperationOf(<<1, 1>>).operationId = <<"AdminControllerV2", "_", "getProfile">>

====
